---- MODULE Spec2Model ----
(***************************************************************************)
(* NeuroCloak: alert rule engine, alert state machine, escalation sweeper  *)
(* and notification dispatcher (apps/alerts), as a state machine over the  *)
(* persisted Alert / AlertRuleConfig / AlertNotification documents and the *)
(* task queue.  Times are whole minutes; task countdowns are kept in       *)
(* seconds as the code writes them.  Scores are in thousandths.            *)
(***************************************************************************)
EXTENDS Integers, Sequences, FiniteSets, Bags, TLC

VARIABLES
    now,            \* datetime.utcnow(), in minutes
    alerts,         \* the alerts collection: alert id -> Alert document
    nextAlertId,    \* the next fresh primary key
    rule,           \* the AlertRuleConfig document
    metricSource,   \* latest completed fairness evaluation's score, or NoValue
    procs,          \* worker -> position and locals of its rule-engine pass
    queue,          \* the broker: a bag of task messages
    notifications,  \* the alert_notifications collection: a bag of documents
    sweep_runs,     \* runs of check_alert_escalations so far, modulo 2
    batch,          \* the process_alert_rules task over the rules of a scope
    call,           \* a function call in hand: its arguments and its result
    evaluations,    \* kind -> the evaluations of that kind, oldest timestamp first
    trust_scores,   \* the trust_scores collection, oldest timestamp first
    config          \* the active ProjectConfiguration, or NoConfig

vars == <<now, alerts, nextAlertId, rule, metricSource, procs, queue, notifications,
          sweep_runs, batch, call, evaluations, trust_scores, config>>

\* the part of the state that the trust score aggregation works on
trustVars == <<evaluations, trust_scores, config>>

None == "None"
\* an unset DateTimeField
NoTime == 0 - 1

\* ---------------------------------------------------------------- bounds
MaxAlerts == 2
MaxTime == 62
MaxTimeSeq == 5
MaxTimeRace == 2
MaxCooldown == 2
MaxNotifications == 3
MaxTimeNotify == 4
MaxAlertsNotify == 1
MaxEvaluations == 4
MaxTrustScores == 3
MaxTimeEval == 3
MaxRecords == 3

\* the workers that can run a rule-engine pass at the same time
Procs == {"w1", "w2"}

\* ------------------------------------------------------ program constants
DefaultCooldownMinutes == 60
DefaultMaxRetries == 3
SweepMinAgeMinutes == 30
CriticalEscalationMinutes == 30
HighEscalationMinutes == 60
BackoffBaseSeconds == 60
TaskMaxRetries == 3
TaskRetryCountdown == 60
TrustScoreHighBelow == 500

\* ------------------------------------------------------------ tagged values
\* metric values and thresholds flow through dynamically typed arguments: a
\* number, a string, None, or a list of numbers and strings
Num(x) == [tag |-> "num", num |-> x, text |-> "", items |-> {}]
Str(t) == [tag |-> "str", num |-> 0, text |-> t, items |-> {}]
NoValue == [tag |-> "none", num |-> 0, text |-> "", items |-> {}]
ListV(S) == [tag |-> "list", num |-> 0, text |-> "", items |-> S]

\* no function call in hand
NoCall == [fn |-> "none"]

\* 2 ** k
RECURSIVE Pow2(_)
Pow2(k) == IF k = 0 THEN 1 ELSE 2 * Pow2(k - 1)

\* the strings of the model in their lexicographic order
TextOrder == <<"x", "y">>

TextRank(t) == CHOOSE k \in DOMAIN TextOrder : TextOrder[k] = t

\* Python's ordering of two values as -1, 0, 1; raised when the types have
\* no ordering (TypeError)
Ordering(value, threshold) ==
    IF value.tag = "num" /\ threshold.tag = "num"
    THEN [raised |-> FALSE,
          cmp |-> IF value.num < threshold.num THEN 0 - 1
                  ELSE IF value.num > threshold.num THEN 1 ELSE 0]
    ELSE IF value.tag = "str" /\ threshold.tag = "str"
    THEN [raised |-> FALSE,
          cmp |-> IF TextRank(value.text) < TextRank(threshold.text) THEN 0 - 1
                  ELSE IF TextRank(value.text) > TextRank(threshold.text) THEN 1 ELSE 0]
    ELSE [raised |-> TRUE, cmp |-> 0]

\* not_in with a threshold that is no list answering False, like in
evaluate_condition_NotInFalse(value, operator, threshold) ==
    CASE operator = ">"  -> ~Ordering(value, threshold).raised /\ Ordering(value, threshold).cmp > 0
      [] operator = "<"  -> ~Ordering(value, threshold).raised /\ Ordering(value, threshold).cmp < 0
      [] operator = ">=" -> ~Ordering(value, threshold).raised /\ Ordering(value, threshold).cmp >= 0
      [] operator = "<=" -> ~Ordering(value, threshold).raised /\ Ordering(value, threshold).cmp <= 0
      [] operator = "==" -> value = threshold
      [] operator = "!=" -> value # threshold
      [] operator = "in" ->
            IF threshold.tag = "list" THEN value \in threshold.items ELSE FALSE
      [] operator = "not_in" ->
            IF threshold.tag = "list" THEN value \notin threshold.items ELSE FALSE
      [] OTHER -> FALSE

\* evaluate_condition(value, operator, threshold): the branch of the
\* operator, and False from the except clause when the comparison raises
evaluate_condition(value, operator, threshold) ==
    LET ord == Ordering(value, threshold)
    IN  CASE operator = ">"  -> IF ord.raised THEN FALSE ELSE ord.cmp > 0
          [] operator = "<"  -> IF ord.raised THEN FALSE ELSE ord.cmp < 0
          [] operator = ">=" -> IF ord.raised THEN FALSE ELSE ord.cmp >= 0
          [] operator = "<=" -> IF ord.raised THEN FALSE ELSE ord.cmp <= 0
          [] operator = "==" -> value = threshold
          [] operator = "!=" -> value # threshold
          [] operator = "in" ->
                IF threshold.tag = "list" THEN value \in threshold.items ELSE FALSE
          [] operator = "not_in" ->
                IF threshold.tag = "list" THEN value \notin threshold.items ELSE TRUE
          [] OTHER -> FALSE

\* ------------------------------------------------------------ configuration
ProjectId == "p1"
ModelId == "m1"

\* AlertRuleConfig.rules: the ordered rule conditions of the one configured rule
RuleConditions ==
    << [metric_name |-> "fairness_score", operator |-> "<",
        threshold |-> Num(500), severity |-> "high"],
       [metric_name |-> "fairness_score", operator |-> "<",
        threshold |-> Num(300), severity |-> "critical"],
       [metric_name |-> "drift_score", operator |-> ">",
        threshold |-> Num(200), severity |-> "low"] >>

\* AlertRuleConfig.channels
RuleChannels ==
    << [channel_type |-> "email", enabled |-> TRUE],
       [channel_type |-> "webhook", enabled |-> FALSE] >>

MetricValues == {200, 400, 800}

\* the AlertRuleConfig document as AlertRuleConfigListView.post stores it
NewRule(cooldown) ==
    [project_id |-> ProjectId, model_id |-> ModelId, name |-> "r1",
     alert_type |-> "fairness", rules |-> RuleConditions,
     channels |-> RuleChannels, cooldown_minutes |-> cooldown,
     last_triggered |-> NoTime]

\* get_metrics_for_alert_type: a map metric name -> value, empty when there
\* is no completed evaluation of the rule's kind
get_metrics_for_alert_type(alert_type) ==
    IF alert_type = "fairness" /\ metricSource # NoValue
    THEN [n \in {"fairness_score"} |-> metricSource]
    ELSE [n \in {} |-> NoValue]

\* metrics.get(name)
MetricGet(metrics, name) == IF name \in DOMAIN metrics THEN metrics[name] ELSE NoValue

\* ------------------------------------------------------------------ alerts
\* an Alert document with the defaults of the model class.  Of the
\* timestamps only those that some query or claim reads are kept: updated_at,
\* acknowledged_at, resolved_at and last_notification_at are written and
\* never read by the operations modelled here.
NewAlert(alert_type, rule_name, severity, metric_value, threshold, description, source) ==
    [project_id |-> ProjectId, model_id |-> ModelId,
     alert_type |-> alert_type, rule_name |-> rule_name,
     severity |-> severity, status |-> "active",
     metric_value |-> metric_value, threshold |-> threshold,
     description |-> description, source |-> source, trust_score_id |-> None,
     title_prefixes |-> 0, description_notes |-> 0,
     created_at |-> now,
     is_suppressed |-> FALSE, suppression_until |-> NoTime,
     notifications_sent |-> <<>>]

\* f"{metric_name} is {metric_value} {operator} {threshold}"
RuleDescription(metric_name, metric_value, operator, threshold) ==
    [text |-> "is", metric_name |-> metric_name, metric_value |-> metric_value,
     operator |-> operator, threshold |-> threshold]

\* a description that is not generated from a rule condition
TextDescription(text) ==
    [text |-> text, metric_name |-> None, metric_value |-> NoValue,
     operator |-> None, threshold |-> NoValue]

AlertTuple(a) == <<a.project_id, a.model_id, a.alert_type, a.rule_name>>

\* Alert.objects(project_id, model_id, alert_type, status='active', rule_name)
ActiveMatches(r) ==
    {id \in DOMAIN alerts :
        /\ alerts[id].project_id = r.project_id
        /\ alerts[id].model_id = r.model_id
        /\ alerts[id].alert_type = r.alert_type
        /\ alerts[id].status = "active"
        /\ alerts[id].rule_name = r.name}

\* the lookup filtering on a status that no alert of the rule has
FirstMatches_WrongStatus(r) ==
    {id \in DOMAIN alerts :
        /\ AlertTuple(alerts[id]) = <<r.project_id, r.model_id, r.alert_type, r.name>>
        /\ alerts[id].status = "resolved"}

\* .first() under the collection's ordering -created_at: the candidates are
\* the matches created last (the order among equal timestamps is not fixed)
FirstMatches(r) ==
    {id \in ActiveMatches(r) :
        \A o \in ActiveMatches(r) : alerts[o].created_at <= alerts[id].created_at}

\* the task message process_alert_notifications.delay(alert_id); a message
\* without countdown has no eta and can run at once
NotifyTask(id) ==
    [kind |-> "process_alert_notifications", alert_id |-> id, channel |-> None,
     countdown |-> 0, eta |-> NoTime, retries |-> 0]

\* the task message send_alert_notification.apply_async([alert_id, channel], countdown)
SendTask(id, channel_type, countdown) ==
    [kind |-> "send_alert_notification", alert_id |-> id, channel |-> channel_type,
     countdown |-> countdown,
     eta |-> IF countdown = 0 THEN NoTime ELSE now + (countdown \div 60),
     retries |-> 0]

Enqueue(q, tasks) == q (+) tasks

RECURSIVE SeqToBag(_)
SeqToBag(s) == IF s = <<>> THEN EmptyBag ELSE SetToBag({Head(s)}) (+) SeqToBag(Tail(s))

\* ------------------------------------------------------------- rule engine
IdleProc ==
    [pc |-> "idle", rule |-> NewRule(DefaultCooldownMinutes),
     metrics |-> [n \in {} |-> NoValue], i |-> 1, existing |-> {},
     alerts_triggered |-> <<>>, conditions_true |-> 0, lookup_missed |-> FALSE,
     result |-> "none"]

\* the cooldown added on the wrong side of the comparison
InCooldown_WrongSide(r, t) ==
    /\ r.last_triggered # NoTime
    /\ t + r.cooldown_minutes < r.last_triggered

\* process_single_alert_rule, the cooldown check on the rule object in hand
InCooldown(r, t) ==
    /\ r.last_triggered # NoTime
    /\ t < r.last_triggered + r.cooldown_minutes

\* the pass returns: its locals are gone; what it did is kept for the record
Return(pr, result) ==
    [IdleProc EXCEPT !.result = result,
                     !.rule = pr.rule,
                     !.alerts_triggered = pr.alerts_triggered,
                     !.lookup_missed = pr.lookup_missed]

\* process_alert_rules: a worker loads the rule document and starts its pass
StartPass(p) ==
    /\ procs[p].pc = "idle"
    /\ procs' = [procs EXCEPT ![p] =
            [IdleProc EXCEPT !.pc = "check", !.rule = rule]]
    /\ UNCHANGED <<now, alerts, nextAlertId, rule, metricSource, queue, notifications, sweep_runs, batch, call, trustVars>>

\* process_single_alert_rule up to the condition loop: the cooldown check,
\* then the metrics read
EvalRule(p) ==
    /\ procs[p].pc = "check"
    /\ LET pr == procs[p]
           metrics == get_metrics_for_alert_type(pr.rule.alert_type)
       IN  procs' = [procs EXCEPT ![p] =
              IF InCooldown(pr.rule, now)
              THEN Return(pr, "cooldown")
              ELSE IF DOMAIN metrics = {}
              THEN Return(pr, "no_metrics")
              ELSE [pr EXCEPT !.pc = "cond", !.metrics = metrics, !.i = 1]]
    /\ UNCHANGED <<now, alerts, nextAlertId, rule, metricSource, queue, notifications, sweep_runs, batch, call, trustVars>>

\* the loop header: the next condition, or the end of the loop
Advance(pr) ==
    [pr EXCEPT !.i = pr.i + 1, !.existing = {},
               !.pc = IF pr.i + 1 > Len(pr.rule.rules) THEN "finish" ELSE "cond"]

\* one condition of the loop: skipped, false, or true and then the lookup of
\* an existing active alert of the rule's tuple
EvalCondition(p) ==
    /\ procs[p].pc = "cond"
    /\ LET pr == procs[p]
           c == pr.rule.rules[pr.i]
           metric_value == MetricGet(pr.metrics, c.metric_name)
       IN  IF metric_value = NoValue
           THEN procs' = [procs EXCEPT ![p] = Advance(pr)]
           ELSE IF evaluate_condition(metric_value, c.operator, c.threshold)
           THEN IF FirstMatches(pr.rule) = {}
                THEN procs' = [procs EXCEPT ![p] =
                        [pr EXCEPT !.pc = "save", !.existing = {},
                                   !.lookup_missed = TRUE,
                                   !.conditions_true = pr.conditions_true + 1]]
                ELSE \E id \in FirstMatches(pr.rule) :
                        procs' = [procs EXCEPT ![p] =
                            [pr EXCEPT !.pc = "save", !.existing = {id},
                                       !.conditions_true = pr.conditions_true + 1]]
           ELSE procs' = [procs EXCEPT ![p] = Advance(pr)]
    /\ UNCHANGED <<now, alerts, nextAlertId, rule, metricSource, queue, notifications, sweep_runs, batch, call, trustVars>>

\* the update also taking back a suppression whose time has passed
UpdatedAlert_Reactivates(a, metric_value, threshold) ==
    [a EXCEPT !.metric_value = metric_value, !.threshold = threshold,
              !.is_suppressed = IF a.suppression_until # NoTime /\ a.suppression_until < now
                                THEN FALSE ELSE a.is_suppressed]

\* the fields the pass writes on the existing alert it found
UpdatedAlert(a, metric_value, threshold) ==
    [a EXCEPT !.metric_value = metric_value, !.threshold = threshold]

\* if existing_alert: update it in place; else: create a new alert
SaveAlert(p) ==
    /\ procs[p].pc = "save"
    /\ LET pr == procs[p]
           c == pr.rule.rules[pr.i]
           metric_value == MetricGet(pr.metrics, c.metric_name)
       IN  IF pr.existing # {}
           THEN /\ alerts' = [id \in DOMAIN alerts |->
                        IF id \in pr.existing
                        THEN UpdatedAlert(alerts[id], metric_value, c.threshold)
                        ELSE alerts[id]]
                /\ procs' = [procs EXCEPT ![p] = Advance(pr)]
                /\ UNCHANGED nextAlertId
           ELSE /\ nextAlertId <= MaxAlerts
                /\ alerts' = alerts @@ (nextAlertId :>
                        NewAlert(pr.rule.alert_type, pr.rule.name, c.severity,
                                 metric_value, c.threshold,
                                 RuleDescription(c.metric_name, metric_value,
                                                 c.operator, c.threshold),
                                 "alert_rule"))
                /\ nextAlertId' = nextAlertId + 1
                /\ procs' = [procs EXCEPT ![p] =
                        Advance([pr EXCEPT !.alerts_triggered =
                                    Append(pr.alerts_triggered, nextAlertId)])]
    /\ UNCHANGED <<now, rule, metricSource, queue, notifications, sweep_runs, batch, call, trustVars>>

\* the final loop leaving out the last alert of the list
DispatchNew_DropLast(q, triggered) ==
    Enqueue(q, SeqToBag([k \in 1..(Len(triggered) - 1) |-> NotifyTask(triggered[k])]))

\* the process_alert_notifications.delay calls of the final loop
DispatchNew(q, triggered) == Enqueue(q, SeqToBag([k \in DOMAIN triggered |-> NotifyTask(triggered[k])]))

\* if alerts_triggered: write last_triggered and enqueue the notifications
Finish(p) ==
    /\ procs[p].pc = "finish"
    /\ LET pr == procs[p]
       IN  /\ IF pr.alerts_triggered # <<>>
              THEN /\ rule' = [rule EXCEPT !.last_triggered = now]
                   /\ queue' = DispatchNew(queue, pr.alerts_triggered)
              ELSE UNCHANGED <<rule, queue>>
           /\ procs' = [procs EXCEPT ![p] = Return(pr, "done")]
    /\ UNCHANGED <<now, alerts, nextAlertId, metricSource, notifications, sweep_runs, batch, call, trustVars>>

\* existing_alert.save() or alert.save() raises: the exception leaves
\* process_single_alert_rule, and the try of process_alert_rules around the
\* call logs it and goes on to the next rule
SaveRaises(p) ==
    /\ procs[p].pc = "save"
    /\ procs' = [procs EXCEPT ![p] = Return(procs[p], "raised")]
    /\ UNCHANGED <<now, alerts, nextAlertId, rule, metricSource, queue, notifications,
                   sweep_runs, batch, call, trustVars>>

\* the end of the pass raises: rule.save() when k = 0, else the k-th
\* process_alert_notifications.delay after the calls before it went through
FinishRaises(p, k) ==
    /\ procs[p].pc = "finish"
    /\ procs[p].alerts_triggered # <<>>
    /\ k \in 0..Len(procs[p].alerts_triggered)
    /\ IF k = 0
       THEN UNCHANGED <<rule, queue>>
       ELSE /\ rule' = [rule EXCEPT !.last_triggered = now]
            /\ queue' = DispatchNew(queue, SubSeq(procs[p].alerts_triggered, 1, k - 1))
    /\ procs' = [procs EXCEPT ![p] = Return(procs[p], "raised")]
    /\ UNCHANGED <<now, alerts, nextAlertId, metricSource, notifications, sweep_runs,
                   batch, call, trustVars>>

\* ------------------------------------------------------------- environment
\* the clock
Tick(d, limit) ==
    /\ now + d <= limit
    /\ now' = now + d
    /\ UNCHANGED <<alerts, nextAlertId, rule, metricSource, procs, queue, notifications, sweep_runs, batch, call, trustVars>>

\* MetricSource: an evaluation completes and becomes the latest one
SetMetric(v) ==
    /\ metricSource # Num(v)
    /\ metricSource' = Num(v)
    /\ UNCHANGED <<now, alerts, nextAlertId, rule, procs, queue, notifications, sweep_runs, batch, call, trustVars>>

\* ------------------------------------------------- other sources of alerts
\* TrustScore records as calculate_trust_score stores them
TrustScoreInputs ==
    {[score |-> sc, threshold |-> 700, alert_triggered |-> (sc < 700)] :
        sc \in {400, 600, 800}}

\* trigger_trust_score_alert(trust_score_id)
trigger_trust_score_alert(ts) ==
    IF ~ts.alert_triggered
    THEN UNCHANGED vars
    ELSE /\ nextAlertId <= MaxAlerts
         /\ alerts' = alerts @@ (nextAlertId :>
                NewAlert("trust_score", None,
                         IF ts.score < TrustScoreHighBelow THEN "high" ELSE "medium",
                         Num(ts.score), Num(ts.threshold),
                         TextDescription("Trust score has dropped"),
                         "trust_score_evaluation"))
         /\ nextAlertId' = nextAlertId + 1
         /\ queue' = Enqueue(queue, SetToBag({NotifyTask(nextAlertId)}))
         /\ UNCHANGED <<now, rule, metricSource, procs, notifications, sweep_runs, batch, call, trustVars>>

\* AlertListView.post: an alert created through the API
AlertListViewPost(alert_type, severity, rule_name) ==
    /\ nextAlertId <= MaxAlerts
    /\ alerts' = alerts @@ (nextAlertId :>
            NewAlert(alert_type, rule_name, severity, NoValue, NoValue,
                     TextDescription("manual"), None))
    /\ nextAlertId' = nextAlertId + 1
    /\ queue' = Enqueue(queue, SetToBag({NotifyTask(nextAlertId)}))
    /\ UNCHANGED <<now, rule, metricSource, procs, notifications, sweep_runs, batch, call, trustVars>>

\* AlertDetailView.delete
AlertDetailViewDelete(id) ==
    /\ id \in DOMAIN alerts
    /\ alerts' = [o \in DOMAIN alerts \ {id} |-> alerts[o]]
    /\ UNCHANGED <<now, nextAlertId, rule, metricSource, procs, queue, notifications, sweep_runs, batch, call, trustVars>>

\* ------------------------------------------------------------ user actions
\* Alert.acknowledge, through AlertActionView.post
acknowledge(id) ==
    /\ id \in DOMAIN alerts
    /\ alerts' = [alerts EXCEPT ![id] =
            [@ EXCEPT !.status = "acknowledged"]]
    /\ UNCHANGED <<now, nextAlertId, rule, metricSource, procs, queue, notifications, sweep_runs, batch, call, trustVars>>

\* Alert.resolve, through AlertActionView.post
resolve(id) ==
    /\ id \in DOMAIN alerts
    /\ alerts' = [alerts EXCEPT ![id] =
            [@ EXCEPT !.status = "resolved"]]
    /\ UNCHANGED <<now, nextAlertId, rule, metricSource, procs, queue, notifications, sweep_runs, batch, call, trustVars>>

\* request data of the suppress action: suppression_minutes, or 0 when absent
SuppressionMinutes == {0, 45}

\* Alert.suppress, through AlertActionView.post
suppress(id, minutes) ==
    /\ id \in DOMAIN alerts
    /\ alerts' = [alerts EXCEPT ![id] =
            [@ EXCEPT !.is_suppressed = TRUE,
                      !.suppression_until = IF minutes # 0 THEN now + minutes ELSE NoTime]]
    /\ UNCHANGED <<now, nextAlertId, rule, metricSource, procs, queue, notifications, sweep_runs, batch, call, trustVars>>

\* -------------------------------------------------------- escalation sweeper
\* the age limits met, not passed
should_escalate_alert_AtLimit(a) ==
    IF a.severity = "critical" THEN now >= a.created_at + CriticalEscalationMinutes
    ELSE IF a.severity = "high" THEN now >= a.created_at + HighEscalationMinutes
    ELSE FALSE

\* should_escalate_alert(alert)
should_escalate_alert(a) ==
    IF a.severity = "critical" THEN now > a.created_at + CriticalEscalationMinutes
    ELSE IF a.severity = "high" THEN now > a.created_at + HighEscalationMinutes
    ELSE FALSE

\* the query of check_alert_escalations
SweepCandidates ==
    {id \in DOMAIN alerts :
        /\ alerts[id].status = "active"
        /\ alerts[id].is_suppressed = FALSE
        /\ alerts[id].created_at < now - SweepMinAgeMinutes}

\* the alerts of the query for which escalate_alert is called
EscalationCalls == {id \in SweepCandidates : should_escalate_alert(alerts[id])}

\* every call of escalate_alert queueing the notifications again
Escalated_EveryCall == EscalationCalls

\* the alerts that escalate_alert changes: only high ones
Escalated == {id \in EscalationCalls : alerts[id].severity = "high"}

\* the escalation without the check of the severity
escalate_alert_AnySeverity(a) ==
    [a EXCEPT !.severity = "critical",
              !.title_prefixes = a.title_prefixes + 1,
              !.description_notes = a.description_notes + 1]

\* escalate_alert(alert), the document it leaves
escalate_alert(a) ==
    IF a.severity = "high"
    THEN [a EXCEPT !.severity = "critical",
                   !.title_prefixes = a.title_prefixes + 1,
                   !.description_notes = a.description_notes + 1]
    ELSE a

\* check_alert_escalations: one sweep
check_alert_escalations ==
    /\ alerts' = [id \in DOMAIN alerts |->
            IF id \in EscalationCalls THEN escalate_alert(alerts[id]) ELSE alerts[id]]
    /\ queue' = Enqueue(queue, SetToBag({NotifyTask(id) : id \in Escalated}))
    /\ sweep_runs' = (sweep_runs + 1) % 2
    /\ UNCHANGED <<now, nextAlertId, rule, metricSource, procs, notifications, batch, call, trustVars>>

\* --------------------------------------------------- notification dispatcher
\* self.retry(exc=exc, countdown=60) of a task declared with max_retries=3:
\* the message is queued again, or dropped once the retries are used up
TaskRetry(q, t) ==
    IF t.retries < TaskMaxRetries
    THEN (q (-) SetToBag({t})) (+)
         SetToBag({[t EXCEPT !.retries = t.retries + 1,
                             !.countdown = TaskRetryCountdown,
                             !.eta = now + (TaskRetryCountdown \div 60)]})
    ELSE q (-) SetToBag({t})

\* the in-app channel appended whatever the rule has configured
ChannelsFor_AlwaysInApp(a) ==
    LET configured == IF a.rule_name # None
                         /\ a.project_id = rule.project_id
                         /\ a.model_id = rule.model_id
                         /\ a.rule_name = rule.name
                      THEN rule.channels ELSE <<>>
    IN  Append(configured, [channel_type |-> "in_app", enabled |-> TRUE])

\* the channel list process_alert_notifications works on: the channels of the
\* alert's rule, plus an in-app channel when the list has none
ChannelsFor(a) ==
    LET configured == IF a.rule_name # None
                         /\ a.project_id = rule.project_id
                         /\ a.model_id = rule.model_id
                         /\ a.rule_name = rule.name
                      THEN rule.channels ELSE <<>>
    IN  IF \E k \in DOMAIN configured : configured[k].channel_type = "in_app"
        THEN configured
        ELSE Append(configured, [channel_type |-> "in_app", enabled |-> TRUE])

\* process_alert_notifications(alert_id)
process_alert_notifications(t) ==
    /\ t \in BagToSet(queue)
    /\ t.kind = "process_alert_notifications"
    /\ t.eta <= now
    /\ IF t.alert_id \notin DOMAIN alerts
       THEN /\ queue' = TaskRetry(queue, t)
            /\ UNCHANGED alerts
       ELSE LET channels == ChannelsFor(alerts[t.alert_id])
                enabled == {k \in DOMAIN channels : channels[k].enabled}
            IN  /\ queue' = (queue (-) SetToBag({t})) (+)
                        SeqToBag([k \in 1..Cardinality(enabled) |->
                            SendTask(t.alert_id,
                                     channels[CHOOSE j \in enabled :
                                        Cardinality({m \in enabled : m <= j}) = k].channel_type,
                                     0)])
                /\ alerts' = [alerts EXCEPT ![t.alert_id] =
                        [@ EXCEPT !.notifications_sent =
                                [k \in DOMAIN channels |-> channels[k].channel_type]]]
    /\ UNCHANGED <<now, nextAlertId, rule, metricSource, procs, notifications, sweep_runs, batch, call, trustVars>>

ExternalChannels == {"email", "webhook", "slack", "teams"}

\* the in-app sender failing like an external one
SenderResult_InAppFails(channel_type, delivered) ==
    IF channel_type \in ExternalChannels \cup {"in_app"} THEN delivered ELSE FALSE

\* the sender chosen by channel type; delivered is what the external service
\* does with the message
SenderResult(channel_type, delivered) ==
    IF channel_type \in ExternalChannels THEN delivered
    ELSE IF channel_type = "in_app" THEN TRUE
    ELSE FALSE

\* the AlertNotification document send_alert_notification ends with, created
\* with retry_count 0 and max_retries 3 by the attempt itself
AttemptRecord(t, success) ==
    LET fresh == [alert_id |-> t.alert_id, channel_type |-> t.channel,
                  status |-> "pending", retry_count |-> 0,
                  max_retries |-> DefaultMaxRetries]
    IN  IF success
        THEN [fresh EXCEPT !.status = "sent"]
        ELSE IF fresh.retry_count < fresh.max_retries
        THEN [fresh EXCEPT !.status = "retry", !.retry_count = fresh.retry_count + 1]
        ELSE [fresh EXCEPT !.status = "failed"]

\* send_alert_notification(alert_id, channel)
send_alert_notification(t, delivered) ==
    /\ t \in BagToSet(queue)
    /\ t.kind = "send_alert_notification"
    /\ t.eta <= now
    /\ IF t.alert_id \notin DOMAIN alerts
       THEN /\ queue' = TaskRetry(queue, t)
            /\ UNCHANGED notifications
       ELSE LET n == AttemptRecord(t, SenderResult(t.channel, delivered))
            IN  /\ BagCardinality(notifications) < MaxNotifications
                /\ notifications' = notifications (+) SetToBag({n})
                /\ queue' = IF n.status = "retry"
                            THEN (queue (-) SetToBag({t})) (+)
                                 SetToBag({SendTask(t.alert_id, t.channel,
                                    BackoffBaseSeconds * Pow2(n.retry_count))})
                            ELSE queue (-) SetToBag({t})
    /\ UNCHANGED <<now, alerts, nextAlertId, rule, metricSource, procs, sweep_runs, batch, call, trustVars>>

\* ------------------------------------------------ trust score aggregation
\* Component scores and weights are in thousandths, so that a trust score,
\* the sum of weight x component, is in millionths.
Kinds == {"fairness", "robustness", "drift", "explainability"}

\* no active ProjectConfiguration
NoConfig == [present |-> FALSE, weights |-> [k \in {} |-> 0], threshold |-> 0]

\* calculate_trust_score's weights and threshold without a configuration
DefaultWeights ==
    [k \in {"fairness", "robustness", "stability", "explainability"} |->
        CASE k = "fairness" -> 300
          [] k = "robustness" -> 250
          [] k = "stability" -> 250
          [] k = "explainability" -> 200]

DefaultThreshold == 700000

\* the component of a kind that has no completed evaluation
MissingComponent == 500

\* the trend limit of 5 per cent
StableBelowPercent == 5

\* no evaluation, no trust score, no configuration
NoTrustData ==
    /\ evaluations = [k \in Kinds |-> <<>>]
    /\ trust_scores = <<>>
    /\ config = NoConfig

\* weights.get(key, default)
WeightGet(weights, key) ==
    IF key \in DOMAIN weights THEN weights[key] ELSE DefaultWeights[key]

\* the latest evaluation whatever its status
LatestCompleted_AnyStatus(kind) ==
    IF evaluations[kind] = <<>> THEN [found |-> FALSE, score |-> 0]
    ELSE [found |-> TRUE, score |-> evaluations[kind][Len(evaluations[kind])].score]

\* objects(status='completed').order_by('-timestamp').first()
LatestCompleted(kind) ==
    LET done == {i \in DOMAIN evaluations[kind] :
                    evaluations[kind][i].status = "completed"}
    IN  IF done = {} THEN [found |-> FALSE, score |-> 0]
        ELSE [found |-> TRUE,
              score |-> evaluations[kind][CHOOSE i \in done : \A j \in done : j <= i].score]

\* the four component scores; the drift score is inverted into stability
Components ==
    [k \in {"fairness", "robustness", "stability", "explainability"} |->
        CASE k = "fairness" ->
                IF LatestCompleted("fairness").found
                THEN LatestCompleted("fairness").score ELSE MissingComponent
          [] k = "robustness" ->
                IF LatestCompleted("robustness").found
                THEN LatestCompleted("robustness").score ELSE MissingComponent
          [] k = "stability" ->
                1000 - (IF LatestCompleted("drift").found
                        THEN LatestCompleted("drift").score ELSE MissingComponent)
          [] k = "explainability" ->
                IF LatestCompleted("explainability").found
                THEN LatestCompleted("explainability").score ELSE MissingComponent]

\* overall_score, in millionths
OverallScore(weights, c) ==
    WeightGet(weights, "fairness") * c["fairness"]
    + WeightGet(weights, "robustness") * c["robustness"]
    + WeightGet(weights, "stability") * c["stability"]
    + WeightGet(weights, "explainability") * c["explainability"]

\* no earlier trust score
NoPrevious == [found |-> FALSE, score |-> 0]

\* TrustScore.objects(...).order_by('-timestamp').skip(1).first(), read
\* before the new record is saved: the second latest record that exists
PreviousScore(scores) ==
    IF Len(scores) < 2 THEN NoPrevious
    ELSE [found |-> TRUE, score |-> scores[Len(scores) - 1].score]

Abs(x) == IF x < 0 THEN 0 - x ELSE x

\* trend_percentage, kept as the fraction num / den, and trend_direction
Trend(overall_score, previous) ==
    IF ~previous.found
    THEN [trend_direction |-> "stable", num |-> 0, den |-> 1]
    ELSE LET pct == IF previous.score > 0
                    THEN [num |-> (overall_score - previous.score) * 100,
                          den |-> previous.score]
                    ELSE [num |-> 0, den |-> 1]
         IN  [trend_direction |->
                    IF Abs(pct.num) < StableBelowPercent * pct.den THEN "stable"
                    ELSE IF pct.num > 0 THEN "improving"
                    ELSE "declining",
              num |-> pct.num, den |-> pct.den]

\* a score at the threshold triggering as well
AlertTriggered_AtThreshold(overall_score, threshold) == overall_score <= threshold

\* alert_triggered=overall_score < threshold
AlertTriggered(overall_score, threshold) == overall_score < threshold

\* the task message trigger_trust_score_alert.delay(trust_score_id)
TrustAlertTask(id) ==
    [kind |-> "trigger_trust_score_alert", trust_score_id |-> id,
     countdown |-> 0, eta |-> NoTime, retries |-> 0]

\* a save that checks no range
InUnit_Unchecked(x, one) == TRUE

\* FloatField(min_value=0, max_value=1), checked by every save of the
\* document; one is the value of 1.0 in the unit of x
InUnit(x, one) == 0 <= x /\ x <= one

\* the number of evaluation records of all kinds
TotalEvaluations ==
    Len(evaluations["fairness"]) + Len(evaluations["robustness"])
    + Len(evaluations["drift"]) + Len(evaluations["explainability"])

\* an evaluation task stores its record: still running, completed with its
\* overall score, or failed.  A result outside the declared range of the
\* score field is refused by the save, and so is the save that would mark
\* the record failed: the record stays as first saved, running
RunEvaluation(kind, status, score) ==
    /\ TotalEvaluations < MaxEvaluations
    /\ evaluations' = [evaluations EXCEPT ![kind] =
            Append(@, IF status = "completed" /\ InUnit(score, 1000)
                      THEN [status |-> "completed", score |-> score, error_message |-> FALSE]
                      ELSE IF status = "completed"
                      THEN [status |-> "running", score |-> 0, error_message |-> FALSE]
                      ELSE [status |-> status, score |-> 0,
                            error_message |-> (status = "failed")])]
    /\ UNCHANGED <<now, alerts, nextAlertId, rule, metricSource, procs, queue,
                   notifications, sweep_runs, batch, call, trust_scores, config>>

\* calculate_trust_score(project_id, model_id)
calculate_trust_score ==
    /\ Len(trust_scores) < MaxTrustScores
    /\ LET weights == IF config.present THEN config.weights ELSE DefaultWeights
           threshold == IF config.present THEN config.threshold ELSE DefaultThreshold
           c == Components
           overall_score == OverallScore(weights, c)
           trend == Trend(overall_score, PreviousScore(trust_scores))
           record == [fairness_score |-> c["fairness"],
                      robustness_score |-> c["robustness"],
                      stability_score |-> c["stability"],
                      explainability_score |-> c["explainability"],
                      score |-> overall_score,
                      trend_direction |-> trend.trend_direction,
                      trend_num |-> trend.num, trend_den |-> trend.den,
                      threshold |-> threshold,
                      alert_triggered |-> AlertTriggered(overall_score, threshold)]
       IN  IF /\ InUnit(record.fairness_score, 1000)
              /\ InUnit(record.robustness_score, 1000)
              /\ InUnit(record.stability_score, 1000)
              /\ InUnit(record.explainability_score, 1000)
              /\ InUnit(record.score, 1000000)
           THEN /\ trust_scores' = Append(trust_scores, record)
                /\ queue' = IF record.alert_triggered
                            THEN Enqueue(queue, SetToBag({TrustAlertTask(Len(trust_scores) + 1)}))
                            ELSE queue
           ELSE UNCHANGED <<trust_scores, queue>>
    /\ UNCHANGED <<now, alerts, nextAlertId, rule, metricSource, procs,
                   notifications, sweep_runs, batch, call, evaluations, config>>

\* ------------------------------------------- process_alert_rules as a batch
\* the rule configurations of one project/model scope, in the order of the query
RuleNames == <<"r1", "r2", "r3">>

\* the task before it runs: active are the rules with is_active = True
IdleBatch(active) ==
    [pc |-> "idle", active |-> active, todo |-> <<>>,
     processed |-> {}, raised |-> {}, retries |-> 0]

\* the rules the query returns: the active ones, in order
RECURSIVE ActiveInOrder(_, _)
ActiveInOrder(names, active) ==
    IF names = <<>> THEN <<>>
    ELSE IF Head(names) \in active
    THEN <<Head(names)>> \o ActiveInOrder(Tail(names), active)
    ELSE ActiveInOrder(Tail(names), active)

\* the inner except clause left out: the exception of one rule reaches the
\* outer handler, which retries the task
AfterRuleRaised_Aborts(b, r) ==
    IF b.retries < TaskMaxRetries
    THEN [b EXCEPT !.pc = "idle", !.todo = <<>>, !.retries = b.retries + 1]
    ELSE [b EXCEPT !.pc = "gave_up", !.todo = <<>>]

\* except Exception inside the loop: the error is logged and the loop goes on
AfterRuleRaised(b, r) ==
    [b EXCEPT !.raised = b.raised \cup {r}, !.todo = Tail(b.todo)]

\* the task starts: the query of the active rules, which may itself fail and
\* then reaches the outer handler, self.retry(countdown=60)
process_alert_rules_query(query_ok) ==
    /\ batch.pc = "idle"
    /\ batch' =
        IF query_ok
        THEN [batch EXCEPT !.pc = "loop",
                           !.todo = ActiveInOrder(RuleNames, batch.active),
                           !.processed = {}, !.raised = {}]
        ELSE IF batch.retries < TaskMaxRetries
        THEN [batch EXCEPT !.retries = batch.retries + 1]
        ELSE [batch EXCEPT !.pc = "gave_up"]
    /\ UNCHANGED <<now, alerts, nextAlertId, rule, metricSource, procs, queue,
                   notifications, sweep_runs, call, trustVars>>

\* one turn of the loop: process_single_alert_rule(rule) returns or raises
process_alert_rules_rule(raises) ==
    /\ batch.pc = "loop"
    /\ batch.todo # <<>>
    /\ batch' =
        IF raises
        THEN AfterRuleRaised(batch, Head(batch.todo))
        ELSE [batch EXCEPT !.processed = batch.processed \cup {Head(batch.todo)},
                           !.todo = Tail(batch.todo)]
    /\ UNCHANGED <<now, alerts, nextAlertId, rule, metricSource, procs, queue,
                   notifications, sweep_runs, call, trustVars>>

\* the loop is over and the task returns
process_alert_rules_return ==
    /\ batch.pc = "loop"
    /\ batch.todo = <<>>
    /\ batch' = [batch EXCEPT !.pc = "done"]
    /\ UNCHANGED <<now, alerts, nextAlertId, rule, metricSource, procs, queue,
                   notifications, sweep_runs, call, trustVars>>

\* the task is sent again for the scope
process_alert_rules_delay ==
    /\ batch.pc = "done"
    /\ batch' = [batch EXCEPT !.pc = "idle"]
    /\ UNCHANGED <<now, alerts, nextAlertId, rule, metricSource, procs, queue,
                   notifications, sweep_runs, call, trustVars>>

InitBatch ==
    /\ now = 0
    /\ alerts = <<>>
    /\ nextAlertId = 1
    /\ rule = NewRule(DefaultCooldownMinutes)
    /\ metricSource = NoValue
    /\ procs = [p \in Procs |-> IdleProc]
    /\ queue = EmptyBag
    /\ notifications = EmptyBag
    /\ sweep_runs = 0
    /\ \E active \in SUBSET {RuleNames[k] : k \in DOMAIN RuleNames} :
            batch = IdleBatch(active)
    /\ call = NoCall
    /\ NoTrustData

NextBatch ==
    \/ \E query_ok \in BOOLEAN : process_alert_rules_query(query_ok)
    \/ \E raises \in BOOLEAN : process_alert_rules_rule(raises)
    \/ process_alert_rules_return
    \/ process_alert_rules_delay

SpecBatch == InitBatch /\ [][NextBatch]_vars

\* ------------------------------------- trust score aggregation, its runs
\* ------------------------------------------------------- evaluator tasks
\* the least number of records an evaluator works on
MinSampleSize == 100

\* the task message of an evaluator run
EvalTask(kind) ==
    [kind |-> kind, countdown |-> 0, eta |-> NoTime, retries |-> 0]

\* the task message calculate_trust_score.delay(project_id, model_id)
CalcTask ==
    [kind |-> "calculate_trust_score", countdown |-> 0, eta |-> NoTime, retries |-> 0]

\* a window of exactly the least size counted as too small
Insufficient_AtMinimum(kind, ref_sample_size, sample_size) ==
    IF kind = "drift"
    THEN ref_sample_size <= MinSampleSize \/ sample_size <= MinSampleSize
    ELSE sample_size <= MinSampleSize

\* sample_size < 100, and for drift ref_sample_size < 100 or curr_sample_size < 100
Insufficient(kind, ref_sample_size, sample_size) ==
    IF kind = "drift"
    THEN ref_sample_size < MinSampleSize \/ sample_size < MinSampleSize
    ELSE sample_size < MinSampleSize

\* the record left running when the computation raises
EvaluationAfter_LeftRunning(raised, score) ==
    IF ~raised /\ InUnit(score, 1000)
    THEN [status |-> "completed", score |-> score, error_message |-> FALSE]
    ELSE [status |-> "running", score |-> 0, error_message |-> FALSE]

\* the Evaluation document a run that got past the size check leaves: saved
\* as running, then completed with its score, or marked failed with
\* str(exc) by the except clause when the computation raised.  A score the
\* field's range refuses makes both later saves raise: the record stays
\* running
EvaluationAfter(raised, score) ==
    IF raised
    THEN [status |-> "failed", score |-> 0, error_message |-> TRUE]
    ELSE IF InUnit(score, 1000)
    THEN [status |-> "completed", score |-> score, error_message |-> FALSE]
    ELSE [status |-> "running", score |-> 0, error_message |-> FALSE]

\* the body shared by the evaluator tasks, declared bind=True, max_retries=3
RunEvaluator(t, kind, ref_sample_size, sample_size, has_attributes, raised, score) ==
    /\ t \in BagToSet(queue)
    /\ t.eta <= now
    /\ call' = [fn |-> t.kind,
                ref_sample_size |-> ref_sample_size, sample_size |-> sample_size,
                has_attributes |-> has_attributes, raised |-> raised]
    /\ IF Insufficient(kind, ref_sample_size, sample_size) \/ ~has_attributes
       THEN /\ queue' = queue (-) SetToBag({t})
            /\ UNCHANGED evaluations
       ELSE /\ TotalEvaluations < MaxEvaluations
            /\ evaluations' = [evaluations EXCEPT ![kind] =
                    Append(@, EvaluationAfter(raised, score))]
            /\ queue' = IF EvaluationAfter(raised, score).status = "completed"
                        THEN (queue (-) SetToBag({t})) (+) SetToBag({CalcTask})
                        ELSE TaskRetry(queue, t)
    /\ UNCHANGED <<now, alerts, nextAlertId, rule, metricSource, procs, notifications,
                   sweep_runs, batch, trust_scores, config>>

\* run_fairness_evaluation(project_id, model_id)
run_fairness_evaluation(t, sample_size, has_attributes, raised, score) ==
    /\ t.kind = "run_fairness_evaluation"
    /\ RunEvaluator(t, "fairness", 0, sample_size, has_attributes, raised, score)

\* run_drift_evaluation(project_id, model_id)
run_drift_evaluation(t, ref_sample_size, curr_sample_size, raised, score) ==
    /\ t.kind = "run_drift_evaluation"
    /\ RunEvaluator(t, "drift", ref_sample_size, curr_sample_size, TRUE, raised, score)

\* the scheduler or the API queues an evaluator run, here one at a time
ScheduleEvaluation(kind) ==
    /\ BagCardinality(queue) + TotalEvaluations < MaxEvaluations
    /\ \A t \in BagToSet(queue) : t.kind = "calculate_trust_score"
    /\ queue' = Enqueue(queue, SetToBag({EvalTask(kind)}))
    /\ UNCHANGED <<now, alerts, nextAlertId, rule, metricSource, procs, notifications,
                   sweep_runs, batch, call, trustVars>>

\* the broker runs a trigger_trust_score_alert(trust_score_id) message: the
\* record is read back, and when it has alert_triggered an alert is created
\* with the record's id as context["trust_score_id"] and its notifications are queued
trigger_trust_score_alert_task(t) ==
    /\ t \in BagToSet(queue)
    /\ t.kind = "trigger_trust_score_alert"
    /\ LET ts == trust_scores[t.trust_score_id]
       IN  IF ~ts.alert_triggered
           THEN /\ queue' = queue (-) SetToBag({t})
                /\ UNCHANGED <<alerts, nextAlertId>>
           ELSE /\ alerts' = alerts @@ (nextAlertId :>
                        [NewAlert("trust_score", None,
                                  IF ts.score < TrustScoreHighBelow * 1000
                                  THEN "high" ELSE "medium",
                                  Num(ts.score), Num(ts.threshold),
                                  TextDescription("Trust score has dropped"),
                                  "trust_score_evaluation")
                            EXCEPT !.trust_score_id = t.trust_score_id])
                /\ nextAlertId' = nextAlertId + 1
                /\ queue' = (queue (-) SetToBag({t})) (+) SetToBag({NotifyTask(nextAlertId)})
    /\ UNCHANGED <<now, rule, metricSource, procs, notifications, sweep_runs, batch,
                   call, trustVars>>

\* the configurations of a project: none, custom weights, and weights that
\* leave the stability key out
TrustConfigs ==
    { NoConfig,
      [present |-> TRUE,
       weights |-> [k \in {"fairness", "robustness", "stability", "explainability"} |->
                        IF k = "fairness" THEN 400 ELSE 200],
       threshold |-> 600000],
      [present |-> TRUE,
       weights |-> [k \in {"fairness", "robustness", "explainability"} |->
                        IF k = "fairness" THEN 300 ELSE IF k = "robustness" THEN 250 ELSE 200],
       threshold |-> 700000] }

\* overall scores of the evaluations that complete
ScoreValues == {200, 800}

InitTrust ==
    /\ now = 0
    /\ alerts = <<>>
    /\ nextAlertId = 1
    /\ rule = NewRule(DefaultCooldownMinutes)
    /\ metricSource = NoValue
    /\ procs = [p \in Procs |-> IdleProc]
    /\ queue = EmptyBag
    /\ notifications = EmptyBag
    /\ sweep_runs = 0
    /\ batch = IdleBatch({})
    /\ call = NoCall
    /\ evaluations = [k \in Kinds |-> <<>>]
    /\ trust_scores = <<>>
    /\ config \in TrustConfigs

\* the evaluations of the four kinds and one aggregation over them
NextAggregate ==
    \/ \E kind \in Kinds, status \in {"running", "completed", "failed"}, score \in ScoreValues :
            RunEvaluation(kind, status, score)
    \/ trust_scores = <<>> /\ calculate_trust_score

SpecAggregate == InitTrust /\ [][NextAggregate]_vars

\* the fairness scores that put the trust score below, at and above the
\* threshold of the custom configuration
TriggerScores == {250, 750, 1000}

\* aggregations after fairness evaluations, and the alert task of each
NextTrustAlert ==
    \/ \E score \in TriggerScores : RunEvaluation("fairness", "completed", score)
    \/ calculate_trust_score
    \/ \E t \in BagToSet(queue) : trigger_trust_score_alert_task(t)

\* the broker runs every message it holds
FairTrustAlert ==
    \A id \in 1..MaxTrustScores : WF_vars(trigger_trust_score_alert_task(TrustAlertTask(id)))

SpecTrustAlert == InitTrust /\ [][NextTrustAlert]_vars /\ FairTrustAlert

\* weight maps that do not sum to 1: to 2, to 0.5, and one with a negative weight
RangeConfigs ==
    { [present |-> TRUE,
       weights |-> [k \in {"fairness", "robustness", "stability", "explainability"} |-> 500],
       threshold |-> 700000],
      [present |-> TRUE,
       weights |-> [k \in {"fairness", "robustness", "stability", "explainability"} |-> 125],
       threshold |-> 700000],
      [present |-> TRUE,
       weights |-> [k \in {"fairness", "robustness", "stability", "explainability"} |->
                        IF k = "fairness" THEN 0 - 500 ELSE 250],
       threshold |-> 700000] }

\* results of the evaluators, one of them above 1
RangeScores == {0, 1000, 1500}

InitRange ==
    /\ now = 0
    /\ alerts = <<>>
    /\ nextAlertId = 1
    /\ rule = NewRule(DefaultCooldownMinutes)
    /\ metricSource = NoValue
    /\ procs = [p \in Procs |-> IdleProc]
    /\ queue = EmptyBag
    /\ notifications = EmptyBag
    /\ sweep_runs = 0
    /\ batch = IdleBatch({})
    /\ call = NoCall
    /\ evaluations = [k \in Kinds |-> <<>>]
    /\ trust_scores = <<>>
    /\ config \in RangeConfigs

\* evaluations of the four kinds completing, and one aggregation over them
NextRange ==
    \/ \E kind \in Kinds, score \in RangeScores : RunEvaluation(kind, "completed", score)
    \/ trust_scores = <<>> /\ calculate_trust_score

SpecRange == InitRange /\ [][NextRange]_vars

\* the sizes of a window around the minimum
SampleSizes == {99, 100}

\* results of a drift computation, one of them above 1
DriftResults == {300, 1500}

\* evaluator runs as the scheduler queues them and the broker retries them
NextEvaluators ==
    \/ \E kind \in {"run_fairness_evaluation", "run_drift_evaluation"} :
            ScheduleEvaluation(kind)
    \/ \E t \in BagToSet(queue), sample_size \in SampleSizes,
           has_attributes \in BOOLEAN, raised \in BOOLEAN :
            run_fairness_evaluation(t, sample_size, has_attributes, raised, 700)
    \/ \E t \in BagToSet(queue), ref_sample_size \in SampleSizes,
           curr_sample_size \in SampleSizes, raised \in BOOLEAN, score \in DriftResults :
            run_drift_evaluation(t, ref_sample_size, curr_sample_size, raised, score)
    \/ Tick(1, MaxTimeEval)

InitEvaluators ==
    /\ now = 0
    /\ alerts = <<>>
    /\ nextAlertId = 1
    /\ rule = NewRule(DefaultCooldownMinutes)
    /\ metricSource = NoValue
    /\ procs = [p \in Procs |-> IdleProc]
    /\ queue = EmptyBag
    /\ notifications = EmptyBag
    /\ sweep_runs = 0
    /\ batch = IdleBatch({})
    /\ call = NoCall
    /\ NoTrustData

SpecEvaluators == InitEvaluators /\ [][NextEvaluators]_vars

\* ------------------------------------------------------ fairness metrics
\* Rates are fractions of group sizes, so they are kept as whole numbers of
\* 1 / RateUnit, and gaps and ratios of rates as whole numbers of 1 / GapUnit.
RECURSIVE Gcd(_, _)
Gcd(x, y) == IF y = 0 THEN x ELSE Gcd(y, x % y)

RECURSIVE LcmUpTo(_)
LcmUpTo(n) == IF n <= 1 THEN 1 ELSE (LcmUpTo(n - 1) * n) \div Gcd(LcmUpTo(n - 1), n)

RateUnit == LcmUpTo(MaxRecords)
GapUnit == RateUnit * LcmUpTo(RateUnit)

SetMax(S) == CHOOSE x \in S : \A y \in S : y <= x
SetMin(S) == CHOOSE x \in S : \A y \in S : x <= y

\* a fraction in lowest terms
Fraction(num, den) == [num |-> num \div Gcd(num, den), den |-> den \div Gcd(num, den)]

\* df[attr].dropna().unique()
UniqueValues(predictions, attr) ==
    {predictions[i].features[attr] : i \in DOMAIN predictions} \ {None}

\* df[df[attr] == value]
Subset(predictions, attr, value) ==
    {i \in DOMAIN predictions : predictions[i].features[attr] = value}

\* (rows['prediction'] == 1).mean() over a non-empty set of rows
PositiveRate(predictions, rows) ==
    (Cardinality({i \in rows : predictions[i].prediction = 1}) * RateUnit)
        \div Cardinality(rows)

\* an attribute with fewer than two observed values scored with a gap of 0
AttributeScores_SingleValued(predictions, attr) ==
    LET unique_values == UniqueValues(predictions, attr)
        dp_scores == {PositiveRate(predictions, Subset(predictions, attr, v)) :
                        v \in unique_values}
        positive(v) == {i \in Subset(predictions, attr, v) : predictions[i].true_label = 1}
        eo_scores == {PositiveRate(predictions, positive(v)) :
                        v \in {w \in unique_values : positive(w) # {}}}
        dp_diff == (SetMax(dp_scores) - SetMin(dp_scores)) * (GapUnit \div RateUnit)
        eo_diff == (SetMax(eo_scores) - SetMin(eo_scores)) * (GapUnit \div RateUnit)
        di_gap == IF SetMax(dp_scores) > 0
                  THEN ((SetMax(dp_scores) - SetMin(dp_scores)) * GapUnit)
                            \div SetMax(dp_scores)
                  ELSE GapUnit
    IN  IF Cardinality(unique_values) < 2
        THEN [sum |-> 0, n |-> 1]
        ELSE IF eo_scores # {}
        THEN [sum |-> dp_diff + eo_diff + di_gap, n |-> 3]
        ELSE [sum |-> dp_diff + di_gap, n |-> 2]

\* the entries one protected attribute adds to all_scores, as their sum and
\* their number: the demographic parity gap, the equal opportunity gap when
\* some group has positives, and 1 - the disparate impact ratio
AttributeScores(predictions, attr) ==
    LET unique_values == UniqueValues(predictions, attr)
        dp_scores == {PositiveRate(predictions, Subset(predictions, attr, v)) :
                        v \in unique_values}
        positive(v) == {i \in Subset(predictions, attr, v) : predictions[i].true_label = 1}
        eo_scores == {PositiveRate(predictions, positive(v)) :
                        v \in {w \in unique_values : positive(w) # {}}}
        dp_diff == (SetMax(dp_scores) - SetMin(dp_scores)) * (GapUnit \div RateUnit)
        eo_diff == (SetMax(eo_scores) - SetMin(eo_scores)) * (GapUnit \div RateUnit)
        di_gap == IF SetMax(dp_scores) > 0
                  THEN ((SetMax(dp_scores) - SetMin(dp_scores)) * GapUnit)
                            \div SetMax(dp_scores)
                  ELSE GapUnit
    IN  IF Cardinality(unique_values) < 2
        THEN [sum |-> 0, n |-> 0]
        ELSE IF eo_scores # {}
        THEN [sum |-> dp_diff + eo_diff + di_gap, n |-> 3]
        ELSE [sum |-> dp_diff + di_gap, n |-> 2]

\* all_scores over the protected attributes in turn
RECURSIVE AllScores(_, _)
AllScores(predictions, protected_attributes) ==
    IF protected_attributes = <<>> THEN [sum |-> 0, n |-> 0]
    ELSE LET first == AttributeScores(predictions, Head(protected_attributes))
             rest == AllScores(predictions, Tail(protected_attributes))
         IN  [sum |-> first.sum + rest.sum, n |-> first.n + rest.n]

\* calculate_fairness_metrics(predictions, protected_attributes)['overall_score']
calculate_fairness_metrics(predictions, protected_attributes) ==
    LET all_scores == AllScores(predictions, protected_attributes)
    IN  IF predictions = <<>> \/ all_scores.n = 0
        THEN Fraction(1, 2)
        ELSE Fraction(all_scores.n * GapUnit - all_scores.sum, all_scores.n * GapUnit)

\* prediction records: a binary prediction and label, attribute a absent or
\* one of two groups, attribute b one of two groups
PredictionRecords ==
    [prediction : {0, 1}, true_label : {0, 1},
     features : [a : {None, "g1", "g2"}, b : {"g1", "g2"}]]

PredictionLists == UNION {[1..n -> PredictionRecords] : n \in 0..MaxRecords}

InitFairness ==
    /\ now = 0
    /\ alerts = <<>>
    /\ nextAlertId = 1
    /\ rule = NewRule(DefaultCooldownMinutes)
    /\ metricSource = NoValue
    /\ procs = [p \in Procs |-> IdleProc]
    /\ queue = EmptyBag
    /\ notifications = EmptyBag
    /\ sweep_runs = 0
    /\ batch = IdleBatch({})
    /\ \E predictions \in PredictionLists,
          protected_attributes \in {<<"a">>, <<"a", "b">>} :
            call = [fn |-> "calculate_fairness_metrics", predictions |-> predictions,
                    protected_attributes |-> protected_attributes,
                    returned |-> FALSE, result |-> Fraction(0, 1)]
    /\ NoTrustData

CallFairnessMetrics ==
    /\ call.fn = "calculate_fairness_metrics"
    /\ ~call.returned
    /\ call' = [call EXCEPT !.returned = TRUE,
                            !.result = calculate_fairness_metrics(call.predictions,
                                                                  call.protected_attributes)]
    /\ UNCHANGED <<now, alerts, nextAlertId, rule, metricSource, procs, queue,
                   notifications, sweep_runs, batch, trustVars>>

NextFairness == CallFairnessMetrics

SpecFairness == InitFairness /\ [][NextFairness]_vars

\* ------------------------------------------- population stability index
\* calculate_psi on numeric values.  Bin edges are kept in tenths of the
\* values' unit, which is exact for percentiles at multiples of 10.  The
\* index is a sum of terms (c - r) * ln(c / r), each 0 when c = r and
\* positive otherwise, so nothing cancels: it is kept as the number of its
\* positive terms, 0 exactly when the index is 0.
PsiBins == 10

\* the value 0.0001 put in place of an empty bin's percentage
EmptyBinPerc == [num |-> 1, den |-> 10000]

\* the j-th smallest of the values
SortedValue(values, j) ==
    CHOOSE v \in {values[i] : i \in DOMAIN values} :
        /\ Cardinality({i \in DOMAIN values : values[i] < v}) < j
        /\ j <= Cardinality({i \in DOMAIN values : values[i] <= v})

\* np.percentile(values, 10 * k), with linear interpolation, in tenths
Percentile(values, k) ==
    LET pos == (Len(values) - 1) * k
        lo == (pos \div PsiBins) + 1
        part == pos % PsiBins
    IN  IF part = 0 THEN PsiBins * SortedValue(values, lo)
        ELSE PsiBins * SortedValue(values, lo)
             + part * (SortedValue(values, lo + 1) - SortedValue(values, lo))

\* np.unique(np.percentile(ref_values, np.linspace(0, 100, bins + 1)))
BinEdges(ref_values) == {Percentile(ref_values, k) : k \in 0..PsiBins}

\* np.histogram(values, bins=bin_edges), for the bin that starts at edge e:
\* half open, but for the last bin, which holds its upper edge too
Histogram(values, bin_edges, e) ==
    LET upper == SetMin({x \in bin_edges : x > e})
        last == upper = SetMax(bin_edges)
    IN  Cardinality({i \in DOMAIN values :
            /\ e <= PsiBins * values[i]
            /\ \/ PsiBins * values[i] < upper
               \/ last /\ PsiBins * values[i] = upper})

\* ref_perc of a bin: its share of the reference values, 0.0001 when empty
RefPerc(count, total) ==
    IF count = 0 THEN EmptyBinPerc ELSE [num |-> count, den |-> total]

\* an empty bin of the current window left at 0
CurrPerc_ZeroKept(count, total) == [num |-> count, den |-> total]

\* curr_perc of a bin: its share of the current values, 0.0001 when empty
CurrPerc(count, total) ==
    IF count = 0 THEN EmptyBinPerc ELSE [num |-> count, den |-> total]

\* calculate_psi(ref_values, curr_values)
calculate_psi(ref_values, curr_values) ==
    LET bin_edges == BinEdges(ref_values)
        starts == bin_edges \ {SetMax(bin_edges)}
        ref_perc(e) == RefPerc(Histogram(ref_values, bin_edges, e), Len(ref_values))
        curr_perc(e) == CurrPerc(Histogram(curr_values, bin_edges, e), Len(curr_values))
    IN  IF Cardinality(bin_edges) < 2 THEN 0
        ELSE Cardinality({e \in starts :
                curr_perc(e).num * ref_perc(e).den # ref_perc(e).num * curr_perc(e).den})

\* the values of a numeric feature
PsiValues == {1, 2, 4}

PsiLists == UNION {[1..n -> PsiValues] : n \in 1..MaxRecords}

InitPsi ==
    /\ now = 0
    /\ alerts = <<>>
    /\ nextAlertId = 1
    /\ rule = NewRule(DefaultCooldownMinutes)
    /\ metricSource = NoValue
    /\ procs = [p \in Procs |-> IdleProc]
    /\ queue = EmptyBag
    /\ notifications = EmptyBag
    /\ sweep_runs = 0
    /\ batch = IdleBatch({})
    /\ \E ref_values \in PsiLists, curr_values \in PsiLists :
            call = [fn |-> "calculate_psi", ref_values |-> ref_values,
                    curr_values |-> curr_values, returned |-> FALSE, result |-> 0]
    /\ NoTrustData

CallPsi ==
    /\ call.fn = "calculate_psi"
    /\ ~call.returned
    /\ call' = [call EXCEPT !.returned = TRUE,
                            !.result = calculate_psi(call.ref_values, call.curr_values)]
    /\ UNCHANGED <<now, alerts, nextAlertId, rule, metricSource, procs, queue,
                   notifications, sweep_runs, batch, trustVars>>

NextPsi == CallPsi

SpecPsi == InitPsi /\ [][NextPsi]_vars

\* the scores a trend is computed between, in millionths
TrendScores == {0, 350000, 500000, 665000, 700000, 735000, 800000}

InitTrendCall ==
    /\ now = 0
    /\ alerts = <<>>
    /\ nextAlertId = 1
    /\ rule = NewRule(DefaultCooldownMinutes)
    /\ metricSource = NoValue
    /\ procs = [p \in Procs |-> IdleProc]
    /\ queue = EmptyBag
    /\ notifications = EmptyBag
    /\ sweep_runs = 0
    /\ batch = IdleBatch({})
    /\ \E overall_score \in TrendScores, previous \in TrendScores, found \in BOOLEAN :
            call = [fn |-> "trend", overall_score |-> overall_score,
                    previous |-> previous, found |-> found,
                    returned |-> FALSE, result |-> "", num |-> 0, den |-> 1]
    /\ NoTrustData

\* lines 376-388 applied to one pair of scores
CallTrend ==
    /\ call.fn = "trend"
    /\ ~call.returned
    /\ LET t == Trend(call.overall_score, [found |-> call.found, score |-> call.previous])
       IN  call' = [call EXCEPT !.returned = TRUE, !.result = t.trend_direction,
                                !.num = t.num, !.den = t.den]
    /\ UNCHANGED <<now, alerts, nextAlertId, rule, metricSource, procs, queue,
                   notifications, sweep_runs, batch, trustVars>>

NextTrendCall == CallTrend

SpecTrendCall == InitTrendCall /\ [][NextTrendCall]_vars

\* fairness evaluations completing between one aggregation and the next
NextTrend ==
    \/ \E score \in {0, 500, 1000} : RunEvaluation("fairness", "completed", score)
    \/ calculate_trust_score

SpecTrend == InitTrust /\ [][NextTrend]_vars

\* --------------------------------------------------- evaluate_condition
\* the arguments evaluate_condition is called with: 0.4, 0.5 and 5 (numbers),
\* strings, None, and lists; the eight operators and two unknown ones
EvalValues == {Num(400), Num(500), Num(5), Str("x"), Str("y"), NoValue}

EvalThresholds ==
    {Num(400), Num(500), Str("x"), NoValue,
     ListV({}), ListV({Num(1), Num(2), Num(3)}), ListV({Num(5), Str("x")})}

EvalOperators == {">", "<", ">=", "<=", "==", "!=", "in", "not_in", "=>", ""}

InitEval ==
    /\ now = 0
    /\ alerts = <<>>
    /\ nextAlertId = 1
    /\ rule = NewRule(DefaultCooldownMinutes)
    /\ metricSource = NoValue
    /\ procs = [p \in Procs |-> IdleProc]
    /\ queue = EmptyBag
    /\ notifications = EmptyBag
    /\ sweep_runs = 0
    /\ batch = IdleBatch({})
    /\ \E v \in EvalValues, op \in EvalOperators, th \in EvalThresholds :
            call = [fn |-> "evaluate_condition", value |-> v, operator |-> op,
                    threshold |-> th, returned |-> FALSE, result |-> FALSE]
    /\ NoTrustData

\* the call is made and returns
CallEvaluateCondition ==
    /\ call.fn = "evaluate_condition"
    /\ ~call.returned
    /\ call' = [call EXCEPT !.returned = TRUE,
                            !.result = evaluate_condition(call.value, call.operator,
                                                          call.threshold)]
    /\ UNCHANGED <<now, alerts, nextAlertId, rule, metricSource, procs, queue,
                   notifications, sweep_runs, batch, trustVars>>

NextEval == CallEvaluateCondition

SpecEval == InitEval /\ [][NextEval]_vars

\* ------------------------------------------- the rule engine run sequentially
\* one worker runs the passes, each after the one before it has returned
SeqWorker == "w1"

InitSeq ==
    /\ now = 0
    /\ alerts = <<>>
    /\ nextAlertId = 1
    /\ \E c \in 1..MaxCooldown : rule = NewRule(c)
    /\ metricSource = NoValue
    /\ procs = [p \in Procs |-> IdleProc]
    /\ queue = EmptyBag
    /\ notifications = EmptyBag
    /\ sweep_runs = 0
    /\ batch = IdleBatch({})
    /\ call = NoCall
    /\ NoTrustData

NextSeq ==
    \/ StartPass(SeqWorker)
    \/ EvalRule(SeqWorker)
    \/ EvalCondition(SeqWorker)
    \/ SaveAlert(SeqWorker)
    \/ Finish(SeqWorker)
    \/ Tick(1, MaxTimeSeq)
    \/ \E v \in MetricValues : SetMetric(v)

SpecSeq == InitSeq /\ [][NextSeq]_vars

\* the passes of one worker, any save or enqueue of which may raise
NextPassFail ==
    \/ StartPass(SeqWorker)
    \/ EvalRule(SeqWorker)
    \/ EvalCondition(SeqWorker)
    \/ SaveAlert(SeqWorker)
    \/ Finish(SeqWorker)
    \/ SaveRaises(SeqWorker)
    \/ \E k \in 0..MaxAlerts : FinishRaises(SeqWorker, k)
    \/ Tick(1, MaxTimeSeq)
    \/ \E v \in MetricValues : SetMetric(v)

SpecPassFail == InitSeq /\ [][NextPassFail]_vars

\* ------------------------------------------------- the dispatcher on its own
Init ==
    /\ now = 0
    /\ alerts = <<>>
    /\ nextAlertId = 1
    /\ rule = NewRule(DefaultCooldownMinutes)
    /\ metricSource = NoValue
    /\ procs = [p \in Procs |-> IdleProc]
    /\ queue = EmptyBag
    /\ notifications = EmptyBag
    /\ sweep_runs = 0
    /\ batch = IdleBatch({})
    /\ call = NoCall
    /\ NoTrustData

NextNotify ==
    \/ nextAlertId <= MaxAlertsNotify /\ AlertListViewPost("fairness", "medium", "r1")
    \/ \E id \in DOMAIN alerts : AlertDetailViewDelete(id)
    \/ \E t \in BagToSet(queue) : process_alert_notifications(t)
    \/ \E t \in BagToSet(queue), delivered \in BOOLEAN : send_alert_notification(t, delivered)
    \/ Tick(1, MaxTimeNotify)

SpecNotify == Init /\ [][NextNotify]_vars

\* --------------------------------------- concurrent passes of the rule engine
NextRace ==
    \/ \E p \in Procs : StartPass(p)
    \/ \E p \in Procs : EvalRule(p)
    \/ \E p \in Procs : EvalCondition(p)
    \/ \E p \in Procs : SaveAlert(p)
    \/ \E p \in Procs : Finish(p)
    \/ Tick(1, MaxTimeRace)
    \/ \E v \in {200, 400} : SetMetric(v)

SpecRace == InitSeq /\ [][NextRace]_vars

\* ------------------------------------------------------ retention cleanup
\* cleanup_old_alerts: deletes the resolved alerts whose resolved_at is more
\* than 90 days old.  resolved_at is not kept in the model (see NewAlert):
\* which of the resolved alerts are that old is the input old.
cleanup_old_alerts(old) ==
    /\ old \subseteq {id \in DOMAIN alerts : alerts[id].status = "resolved"}
    /\ alerts' = [id \in DOMAIN alerts \ old |-> alerts[id]]
    /\ UNCHANGED <<now, nextAlertId, rule, metricSource, procs, queue, notifications, sweep_runs, batch, call, trustVars>>

\* the clock read at chosen instants
TickTo(t) ==
    /\ now < t
    /\ now' = t
    /\ UNCHANGED <<alerts, nextAlertId, rule, metricSource, procs, queue, notifications, sweep_runs, batch, call, trustVars>>

\* --------------------------------------- the sweeper and the other engine tasks
\* the instants at which the sweeper's age limits of 30 and 60 minutes are
\* met exactly and passed by one minute, for an alert created at 0
SweepInstants ==
    {1, SweepMinAgeMinutes + 1, HighEscalationMinutes, HighEscalationMinutes + 1}

SweepSeverities == {"medium", "high", "critical"}

NextSweep ==
    \/ \E sev \in SweepSeverities : AlertListViewPost("fairness", sev, "r1")
    \/ \E id \in DOMAIN alerts : resolve(id)
    \/ \E id \in DOMAIN alerts, m \in SuppressionMinutes : suppress(id, m)
    \/ check_alert_escalations
    \/ \E old \in SUBSET DOMAIN alerts : cleanup_old_alerts(old)
    \/ \E t \in SweepInstants : TickTo(t)

SpecSweep == Init /\ [][NextSweep]_vars

\* ------------------------------------- a suppressed alert and the engine tasks
\* two alerts of the rule's tuple posted at minute 0, their notification
\* tasks queued, and the first one suppressed for 45 minutes
InitSuppressed ==
    /\ now = 0
    /\ alerts = (1 :> [NewAlert("fairness", "r1", "high", NoValue, NoValue,
                                TextDescription("manual"), None)
                          EXCEPT !.is_suppressed = TRUE, !.suppression_until = 45])
             @@ (2 :> NewAlert("fairness", "r1", "high", NoValue, NoValue,
                               TextDescription("manual"), None))
    /\ nextAlertId = 3
    /\ rule = NewRule(DefaultCooldownMinutes)
    /\ metricSource = NoValue
    /\ procs = [p \in Procs |-> IdleProc]
    /\ queue = SetToBag({NotifyTask(1), NotifyTask(2)})
    /\ notifications = EmptyBag
    /\ sweep_runs = 0
    /\ batch = IdleBatch({})
    /\ call = NoCall
    /\ NoTrustData

\* the engine tasks, and the resolve action that gives the cleanup its input
NextSuppress ==
    \/ StartPass(SeqWorker)
    \/ EvalRule(SeqWorker)
    \/ EvalCondition(SeqWorker)
    \/ SaveAlert(SeqWorker)
    \/ Finish(SeqWorker)
    \/ SetMetric(400)
    \/ check_alert_escalations
    \/ \E t \in BagToSet(queue) : process_alert_notifications(t)
    \/ \E t \in BagToSet(queue), delivered \in BOOLEAN : send_alert_notification(t, delivered)
    \/ \E id \in DOMAIN alerts : resolve(id)
    \/ \E old \in SUBSET DOMAIN alerts : cleanup_old_alerts(old)
    \/ TickTo(HighEscalationMinutes + 1)

SpecSuppress == InitSuppressed /\ [][NextSuppress]_vars

\* ------------------------------------------ the dispatcher and its channels
\* the channel lists a rule can be configured with: the default one, none,
\* a disabled in-app channel, an enabled in-app channel
ChannelConfigs ==
    { RuleChannels,
      <<>>,
      << [channel_type |-> "in_app", enabled |-> FALSE],
         [channel_type |-> "email", enabled |-> TRUE] >>,
      << [channel_type |-> "in_app", enabled |-> TRUE] >> }

InitChannels ==
    /\ now = 0
    /\ alerts = <<>>
    /\ nextAlertId = 1
    /\ \E c \in ChannelConfigs :
            rule = [NewRule(DefaultCooldownMinutes) EXCEPT !.channels = c]
    /\ metricSource = NoValue
    /\ procs = [p \in Procs |-> IdleProc]
    /\ queue = EmptyBag
    /\ notifications = EmptyBag
    /\ sweep_runs = 0
    /\ batch = IdleBatch({})
    /\ call = NoCall
    /\ NoTrustData

\* an alert of the rule or of no rule is posted, dispatched and delivered.
\* The records of external channels stop short of the bound on the
\* collection, so that the bound never holds back an in-app attempt.
NextDispatch ==
    \/ /\ nextAlertId <= MaxAlertsNotify
       /\ \E rn \in {"r1", None} : AlertListViewPost("fairness", "medium", rn)
    \/ \E id \in DOMAIN alerts : AlertDetailViewDelete(id)
    \/ \E t \in BagToSet(queue) : process_alert_notifications(t)
    \/ \E t \in BagToSet(queue), delivered \in BOOLEAN :
            /\ t.channel \in ExternalChannels
                    => BagCardinality(notifications) < MaxNotifications - MaxAlertsNotify
            /\ send_alert_notification(t, delivered)
    \/ Tick(1, MaxTimeNotify)

\* the broker hands every queued message to a worker: a notification task
\* and an in-app attempt that stay in the queue are run
FairDispatch ==
    \A id \in 1..MaxAlertsNotify :
        /\ WF_vars(process_alert_notifications(NotifyTask(id)))
        /\ WF_vars(send_alert_notification(SendTask(id, "in_app", 0), TRUE))

SpecDispatch == InitChannels /\ [][NextDispatch]_vars /\ FairDispatch

\* ------------------------------------------------------- the alert lifecycle
Next ==
    \/ StartPass(SeqWorker)
    \/ EvalRule(SeqWorker)
    \/ EvalCondition(SeqWorker)
    \/ SaveAlert(SeqWorker)
    \/ Finish(SeqWorker)
    \/ SetMetric(400)
    \/ \E ts \in TrustScoreInputs : trigger_trust_score_alert(ts)
    \/ AlertListViewPost("fairness", "high", "r1")
    \/ \E id \in DOMAIN alerts : acknowledge(id)
    \/ \E id \in DOMAIN alerts : resolve(id)
    \/ \E id \in DOMAIN alerts, m \in SuppressionMinutes : suppress(id, m)
    \/ check_alert_escalations
    \/ Tick(SweepMinAgeMinutes + 1, MaxTime)

Spec == Init /\ [][Next]_vars

\* ---------------------------------------------------------------- claims
\* the active alerts of a (project, model, alert_type, rule_name) tuple
ActiveOfTuple(t) ==
    {id \in DOMAIN alerts : alerts[id].status = "active" /\ AlertTuple(alerts[id]) = t}

RuleTuple == <<rule.project_id, rule.model_id, rule.alert_type, rule.name>>

\* C1: at most one active alert per (project, model, alert_type, rule_name)
\* tuple in every reachable state.
C1_AtMostOneActivePerTuple ==
    \A a, b \in DOMAIN alerts :
        (/\ alerts[a].status = "active"
         /\ alerts[b].status = "active"
         /\ AlertTuple(alerts[a]) = AlertTuple(alerts[b]))
        => a = b

\* C2: with the rule engine as the only source of alerts and its passes run
\* one after another, the rule's tuple never has two active alerts, and once
\* a pass has found a condition true and saved (the rule has triggered, or a
\* pass that counted a true condition is past its save) it has exactly one.
C2_SequentialPassesOneActive ==
    /\ Cardinality(ActiveOfTuple(RuleTuple)) <= 1
    /\ (\/ rule.last_triggered # NoTime
        \/ \E p \in Procs : /\ procs[p].conditions_true > 0
                            /\ procs[p].pc \in {"cond", "finish"})
       => Cardinality(ActiveOfTuple(RuleTuple)) = 1

\* a second pass has been skipped by the cooldown while the condition is
\* still true, and the tuple has its one active alert
C2_Witness ==
    \E p \in Procs :
        /\ procs[p].pc = "idle" /\ procs[p].result = "cooldown"
        /\ metricSource.tag = "num" /\ metricSource.num < 500
        /\ Cardinality(ActiveOfTuple(RuleTuple)) = 1

\* C3: a pass whose rule has last_triggered = T and cooldown_minutes = C and
\* that runs at now < T + C ends without creating or updating an alert,
\* without writing last_triggered and without enqueuing a task.
C3_CooldownPassChangesNothing ==
    [][\A p \in Procs :
        (/\ procs[p].pc = "check"
         /\ procs'[p].pc # "check"
         /\ procs[p].rule.last_triggered # NoTime
         /\ now < procs[p].rule.last_triggered + procs[p].rule.cooldown_minutes)
        => (/\ procs'[p].pc = "idle"
            /\ alerts' = alerts
            /\ nextAlertId' = nextAlertId
            /\ rule' = rule
            /\ queue' = queue
            /\ notifications' = notifications)]_vars

\* a pass has just been skipped one minute before the cooldown ends
C3_Witness ==
    \E p \in Procs :
        /\ procs[p].pc = "idle" /\ procs[p].result = "cooldown"
        /\ rule.last_triggered # NoTime
        /\ now = rule.last_triggered + rule.cooldown_minutes - 1

\* C4: a pass that runs after the cooldown has expired and finds a condition
\* true sets last_triggered to the current time, whether it created the alert
\* or only updated the existing one.
C4_TruePassSetsLastTriggered ==
    [][\A p \in Procs :
        (/\ procs[p].pc = "finish"
         /\ procs'[p].pc = "idle"
         /\ procs[p].conditions_true > 0)
        => rule'.last_triggered = now]_vars

\* C5: the lookup of an existing active alert does not keep two concurrent
\* passes from both creating and both dispatching: every pass that has
\* returned after its lookup found no active alert has created an alert of the
\* rule's tuple, whatever the other worker saved in between, and a
\* notification task has been enqueued for every alert it created.
C5_MissedLookupCreatesAndDispatches ==
    \A p \in Procs :
        (procs[p].pc = "idle" /\ procs[p].result = "done")
        => /\ procs[p].lookup_missed => procs[p].alerts_triggered # <<>>
           /\ \A k \in DOMAIN procs[p].alerts_triggered :
                LET id == procs[p].alerts_triggered[k]
                IN  /\ id \in DOMAIN alerts
                    /\ AlertTuple(alerts[id]) = RuleTuple
                    /\ BagIn(NotifyTask(id), queue)

\* both workers passed the cooldown check on a rule that had never triggered,
\* both created an alert of the same tuple and both dispatched: two active
\* alerts of the tuple and a notification task for each
C5_Witness ==
    \E p, q \in Procs :
        /\ p # q
        /\ procs[p].pc = "idle" /\ procs[p].result = "done"
        /\ procs[q].pc = "idle" /\ procs[q].result = "done"
        /\ procs[p].rule.last_triggered = NoTime
        /\ procs[q].rule.last_triggered = NoTime
        /\ procs[p].alerts_triggered # <<>>
        /\ procs[q].alerts_triggered # <<>>
        /\ Cardinality(ActiveOfTuple(RuleTuple)) = 2
        /\ \A id \in ActiveOfTuple(RuleTuple) : BagIn(NotifyTask(id), queue)

\* the failed attempts recorded for an alert and a channel
FailedAttempts(id, ch) ==
    LET recs == {n \in BagToSet(notifications) :
                    /\ n.alert_id = id /\ n.channel_type = ch
                    /\ n.status \in {"retry", "failed"}}
        RECURSIVE Sum(_)
        Sum(S) == IF S = {} THEN 0
                  ELSE LET n == CHOOSE x \in S : TRUE
                       IN  CopiesIn(n, notifications) + Sum(S \ {n})
    IN  Sum(recs)

\* the delivery attempts of an alert and a channel still in the queue
QueuedAttempts(id, ch) ==
    {t \in BagToSet(queue) :
        /\ t.kind = "send_alert_notification"
        /\ t.alert_id = id /\ t.channel = ch}

\* C6: after max_retries failures of the same alert and channel no further
\* send_alert_notification attempt is scheduled.
C6_NoAttemptAfterMaxRetries ==
    \A id \in DOMAIN alerts, ch \in ExternalChannels :
        FailedAttempts(id, ch) >= DefaultMaxRetries => QueuedAttempts(id, ch) = {}

\* C7: the attempt scheduled by the k-th consecutive failure of an alert and
\* channel has countdown 60 x 2^k seconds.
C7_BackoffDoubles ==
    \A id \in DOMAIN alerts, ch \in ExternalChannels :
        \A t \in QueuedAttempts(id, ch) :
            (t.retries = 0 /\ t.countdown > 0)
            => t.countdown = BackoffBaseSeconds * Pow2(FailedAttempts(id, ch))

\* C8: once every scheduled delivery attempt has run, every AlertNotification
\* record is in a terminal status, sent or failed.
C8_RecordsEndTerminal ==
    (\A t \in BagToSet(queue) : t.kind # "send_alert_notification")
    => \A n \in BagToSet(notifications) : n.status \in {"sent", "failed"}

\* C9: an alert whose status is acknowledged or resolved keeps that status.
C9_AcknowledgedResolvedTerminal ==
    [][\A id \in DOMAIN alerts :
        alerts[id].status \in {"acknowledged", "resolved"}
        => (id \in DOMAIN alerts' /\ alerts'[id].status = alerts[id].status)]_vars

\* C11: once an alert is suppressed, no engine task (rule-engine pass,
\* escalation sweep, notification dispatch, retention cleanup) clears the
\* suppression or changes suppression_until, also after suppression_until
\* has passed.
C11_SuppressionNeverCleared ==
    [][\A id \in DOMAIN alerts :
        (alerts[id].is_suppressed /\ id \in DOMAIN alerts')
        => /\ alerts'[id].is_suppressed
           /\ alerts'[id].suppression_until = alerts[id].suppression_until]_vars

\* sixteen minutes after suppression_until the first alert is still
\* suppressed and still high, although a rule-engine pass has written the
\* metric on it, the dispatcher has processed it, and the sweep of minute 61
\* has escalated the other alert of the same age
C11_Witness ==
    /\ now = 61
    /\ 1 \in DOMAIN alerts /\ 2 \in DOMAIN alerts
    /\ alerts[1].is_suppressed /\ alerts[1].suppression_until = 45
    /\ alerts[1].status = "active" /\ alerts[1].severity = "high"
    /\ alerts[1].metric_value = Num(400)
    /\ alerts[1].notifications_sent # <<>>
    /\ alerts[2].severity = "critical" /\ alerts[2].title_prefixes = 1

\* C12: a sweep escalates an alert of severity high if and only if the alert
\* is active, not suppressed and was created more than 60 minutes before the
\* sweep; the escalation sets severity critical, adds the [ESCALATED] prefix
\* and the note, and enqueues one notification task for the alert.
C12_SweepEscalatesEligibleHigh ==
    [][sweep_runs' # sweep_runs =>
        \A id \in DOMAIN alerts :
            alerts[id].severity = "high" =>
                /\ id \in DOMAIN alerts'
                /\ IF /\ alerts[id].status = "active"
                      /\ ~alerts[id].is_suppressed
                      /\ now - alerts[id].created_at > 60
                   THEN /\ alerts'[id] =
                            [alerts[id] EXCEPT
                                !.severity = "critical",
                                !.title_prefixes = alerts[id].title_prefixes + 1,
                                !.description_notes = alerts[id].description_notes + 1]
                        /\ CopiesIn(NotifyTask(id), queue') =
                                CopiesIn(NotifyTask(id), queue) + 1
                   ELSE /\ alerts'[id] = alerts[id]
                        /\ CopiesIn(NotifyTask(id), queue') =
                                CopiesIn(NotifyTask(id), queue)]_vars

\* a sweep has escalated an alert created 61 minutes before it, and has left
\* alone a high alert of the same age that was suppressed before the sweep
C12_Witness ==
    /\ now = 61
    /\ \E a, b \in DOMAIN alerts :
        /\ alerts[a].created_at = 0 /\ alerts[a].status = "active"
        /\ alerts[a].severity = "critical" /\ alerts[a].title_prefixes = 1
        /\ alerts[a].description_notes = 1
        /\ CopiesIn(NotifyTask(a), queue) = 2
        /\ alerts[b].created_at = 0 /\ alerts[b].status = "active"
        /\ alerts[b].severity = "high" /\ alerts[b].is_suppressed
        /\ alerts[b].suppression_until = 45

\* C13: a sweep changes only high alerts: an alert of severity critical,
\* medium or low, an alert that is not active and a suppressed alert are left
\* as they are, and no notification task is enqueued for them.
C13_SweepLeavesOthersUnchanged ==
    [][sweep_runs' # sweep_runs =>
        /\ DOMAIN alerts' = DOMAIN alerts
        /\ \A id \in DOMAIN alerts :
            (\/ alerts[id].severity \in {"critical", "medium", "low"}
             \/ alerts[id].status # "active"
             \/ alerts[id].is_suppressed)
            => /\ alerts'[id] = alerts[id]
               /\ CopiesIn(NotifyTask(id), queue') = CopiesIn(NotifyTask(id), queue)]_vars

\* the sweep that escalated a high alert at minute 61 passed over an active,
\* unsuppressed critical alert of the same age and left it as posted
C13_Witness ==
    /\ now = 61
    /\ \E c, h \in DOMAIN alerts :
        /\ alerts[h].created_at = 0 /\ alerts[h].title_prefixes = 1
        /\ alerts[c].created_at = 0 /\ alerts[c].severity = "critical"
        /\ alerts[c].status = "active" /\ ~alerts[c].is_suppressed
        /\ alerts[c].title_prefixes = 0 /\ alerts[c].description_notes = 0
        /\ CopiesIn(NotifyTask(c), queue) = 1

\* C10: the suppress action on an active alert moves its status to
\* suppressed, so that it no longer counts as an active alert of its tuple.
C10_SuppressMovesToSuppressed ==
    [][\A id \in DOMAIN alerts :
        (/\ alerts[id].status = "active"
         /\ ~alerts[id].is_suppressed
         /\ id \in DOMAIN alerts'
         /\ alerts'[id].is_suppressed)
        => alerts'[id].status = "suppressed"]_vars

ChannelTypes == ExternalChannels \cup {"in_app"}

\* the channels the claim expects for an alert: those of its rule, and an
\* in-app channel when the rule has none (or the alert has no rule)
ExpectedChannels(a) ==
    LET own == IF a.rule_name = rule.name /\ a.project_id = rule.project_id
                  /\ a.model_id = rule.model_id
               THEN rule.channels ELSE <<>>
        has_in_app == \E k \in DOMAIN own : own[k].channel_type = "in_app"
    IN  IF has_in_app THEN own
        ELSE own \o << [channel_type |-> "in_app", enabled |-> TRUE] >>

ExpectedAttempts(a, ch) ==
    Cardinality({k \in DOMAIN ExpectedChannels(a) :
        ExpectedChannels(a)[k].channel_type = ch /\ ExpectedChannels(a)[k].enabled})

\* C14: when process_alert_notifications runs for a persisted alert, it
\* enqueues one delivery attempt for each enabled channel of (the channels of
\* the alert's rule, plus an in-app channel when the rule has none), none for
\* a disabled channel, and creates no AlertNotification itself; a record only
\* ever exists for a channel that is enabled.
C14_AttemptsForEnabledChannels ==
    [][/\ \A t \in BagToSet(queue) :
            (/\ t.kind = "process_alert_notifications"
             /\ t.alert_id \in DOMAIN alerts
             /\ CopiesIn(t, queue') < CopiesIn(t, queue))
            => /\ \A ch \in ChannelTypes :
                    CopiesIn(SendTask(t.alert_id, ch, 0), queue')
                        = CopiesIn(SendTask(t.alert_id, ch, 0), queue)
                            + ExpectedAttempts(alerts[t.alert_id], ch)
               /\ notifications' = notifications
       /\ \A n \in BagToSet(notifications') :
            n.alert_id \in DOMAIN alerts'
                => ExpectedAttempts(alerts'[n.alert_id], n.channel_type) > 0]_vars

\* the dispatcher has run for an alert of the rule with an enabled email and
\* a disabled webhook channel: attempts for email and the added in-app
\* channel are queued, none for webhook
C14_Witness ==
    /\ rule.channels = RuleChannels
    /\ 1 \in DOMAIN alerts
    /\ alerts[1].rule_name = "r1"
    /\ alerts[1].notifications_sent = <<"email", "webhook", "in_app">>
    /\ CopiesIn(SendTask(1, "email", 0), queue) = 1
    /\ CopiesIn(SendTask(1, "in_app", 0), queue) = 1
    /\ CopiesIn(SendTask(1, "webhook", 0), queue) = 0

\* the alert is persisted, its notification task is queued, and its channel
\* list has an enabled in-app channel
HandedWithInApp(id) ==
    /\ id \in DOMAIN alerts
    /\ BagIn(NotifyTask(id), queue)
    /\ ExpectedAttempts(alerts[id], "in_app") > 0

InAppSent(id) ==
    \E n \in BagToSet(notifications) :
        n.alert_id = id /\ n.channel_type = "in_app" /\ n.status = "sent"

\* C15: in-app delivery always succeeds: no in_app AlertNotification is ever
\* in status retry or failed, and every alert handed to the dispatcher with
\* an enabled in-app channel gets, if it stays persisted and the queued tasks
\* are run, an in_app AlertNotification with status sent.
C15_InAppAlwaysSent ==
    /\ [](\A n \in BagToSet(notifications) :
            n.channel_type = "in_app" => n.status = "sent")
    /\ \A id \in 1..MaxAlertsNotify :
            HandedWithInApp(id) ~> (InAppSent(id) \/ id \notin DOMAIN alerts)

\* the alert without a rule has its one in-app record, sent
C15_Witness ==
    /\ 1 \in DOMAIN alerts
    /\ alerts[1].rule_name = None
    /\ InAppSent(1)
    /\ queue = EmptyBag

\* C16: an exception raised while one rule is processed does not abort the
\* batch: every turn of the loop, whether its rule returned or raised, goes
\* on to the next rule without a retry of the task, and when the task
\* returns every active rule of the scope has been processed or has raised.
C16_RuleFailureDoesNotAbortBatch ==
    [][/\ (batch.pc = "loop" /\ batch.todo # <<>> /\ batch' # batch)
            => /\ batch'.pc = "loop"
               /\ batch'.retries = batch.retries
               /\ batch'.todo = Tail(batch.todo)
               /\ Head(batch.todo) \in batch'.processed \cup batch'.raised
       /\ batch'.pc = "done"
            => /\ batch'.processed \cup batch'.raised = batch'.active
               /\ batch'.processed \cap batch'.raised = {}]_vars

\* the first rule raised, the two after it were processed, and the task
\* returned without a retry
C16_Witness ==
    /\ batch.pc = "done"
    /\ batch.raised = {"r1"}
    /\ batch.processed = {"r2", "r3"}
    /\ batch.retries = 0

\* the operator table of evaluate_condition, stated on its own
OperatorTable(value, operator, threshold) ==
    LET both_num == value.tag = "num" /\ threshold.tag = "num"
        both_str == value.tag = "str" /\ threshold.tag = "str"
        less == \/ both_num /\ value.num < threshold.num
                \/ both_str /\ TextRank(value.text) < TextRank(threshold.text)
        greater == \/ both_num /\ value.num > threshold.num
                   \/ both_str /\ TextRank(value.text) > TextRank(threshold.text)
        equal == value = threshold
        is_list == threshold.tag = "list"
    IN  IF operator = "<" THEN less
        ELSE IF operator = ">" THEN greater
        ELSE IF operator = "<=" THEN (both_num \/ both_str) /\ ~greater
        ELSE IF operator = ">=" THEN (both_num \/ both_str) /\ ~less
        ELSE IF operator = "==" THEN equal
        ELSE IF operator = "!=" THEN ~equal
        ELSE IF operator = "in" THEN is_list /\ value \in threshold.items
        ELSE IF operator = "not_in" THEN ~is_list \/ value \notin threshold.items
        ELSE FALSE

\* C17: evaluate_condition returns for every value, operator and threshold,
\* and returns what the operator table says: the comparison for the six
\* comparison operators (False when the two cannot be ordered), membership
\* for 'in' with a list and False without one, non-membership for 'not_in'
\* with a list and True without one, False for an unknown operator; so
\* evaluate(0.4, '<', 0.5) is True, evaluate(5, 'in', [1, 2, 3]) is False
\* and evaluate('x', 'not_in', []) is True.
C17_EvaluateConditionTable ==
    /\ call.returned
        => call.result = OperatorTable(call.value, call.operator, call.threshold)
    /\ evaluate_condition(Num(400), "<", Num(500)) = TRUE
    /\ evaluate_condition(Num(5), "in", ListV({Num(1), Num(2), Num(3)})) = FALSE
    /\ evaluate_condition(Str("x"), "not_in", ListV({})) = TRUE

\* a string compared with a number by '<' has returned False, not raised
C17_Witness ==
    /\ call.returned
    /\ call.value = Str("x") /\ call.operator = "<" /\ call.threshold = Num(500)
    /\ call.result = FALSE


\* the components as the specification words them: the score of the latest
\* completed evaluation of the kind, 500 when there is none
SpecComponent(kind) ==
    LET done == {i \in DOMAIN evaluations[kind] :
                    evaluations[kind][i].status = "completed"}
    IN  IF done = {} THEN 500
        ELSE LET last == CHOOSE i \in done : \A j \in done : j <= i
             IN  evaluations[kind][last].score

SpecWeight(key) ==
    IF config.present /\ key \in DOMAIN config.weights THEN config.weights[key]
    ELSE CASE key = "fairness" -> 300
           [] key = "robustness" -> 250
           [] key = "stability" -> 250
           [] key = "explainability" -> 200

\* C18: the record an aggregation stores has score = sum of weight x
\* component, each component the score of the latest completed evaluation of
\* its kind (never a running or failed one), 0.5 for a kind without one, and
\* stability = 1 - drift; with the weights 0.30/0.25/0.25/0.20 and all four
\* components 0.8 the score is 0.8
C18_ScoreIsWeightedSumOfLatestCompleted ==
    [][trust_scores' # trust_scores =>
        LET r == trust_scores'[Len(trust_scores')]
        IN  /\ r.fairness_score = SpecComponent("fairness")
            /\ r.robustness_score = SpecComponent("robustness")
            /\ r.stability_score = 1000 - SpecComponent("drift")
            /\ r.explainability_score = SpecComponent("explainability")
            /\ r.score = SpecWeight("fairness") * r.fairness_score
                         + SpecWeight("robustness") * r.robustness_score
                         + SpecWeight("stability") * r.stability_score
                         + SpecWeight("explainability") * r.explainability_score
            /\ (/\ \A k \in {"fairness", "robustness", "stability", "explainability"} :
                        SpecWeight(k) = DefaultWeights[k]
                /\ r.fairness_score = 800 /\ r.robustness_score = 800
                /\ r.stability_score = 800 /\ r.explainability_score = 800)
               => r.score = 800000]_vars

\* an aggregation with the default weights has run over four components of
\* 0.8, the drift evaluation having completed with 0.2
C18_Witness ==
    /\ trust_scores # <<>>
    /\ ~config.present
    /\ \A k \in Kinds : Len(evaluations[k]) = 1 /\ evaluations[k][1].status = "completed"
    /\ evaluations["drift"][1].score = 200
    /\ trust_scores[1].fairness_score = 800
    /\ trust_scores[1].robustness_score = 800
    /\ trust_scores[1].stability_score = 800
    /\ trust_scores[1].explainability_score = 800
    /\ trust_scores[1].score = 800000


\* C19: the trend of the record an aggregation stores is computed against
\* the latest record that existed when the aggregation ran: its
\* trend_percentage is (score_n - score_{n-1}) / score_{n-1} x 100, and it is
\* 0 with direction 'stable' when there was no record or that score was 0
C19_TrendAgainstImmediatePredecessor ==
    [][trust_scores' # trust_scores =>
        LET r == trust_scores'[Len(trust_scores')]
        IN  IF trust_scores = <<>> \/ trust_scores[Len(trust_scores)].score = 0
            THEN r.trend_num = 0 /\ r.trend_direction = "stable"
            ELSE LET previous == trust_scores[Len(trust_scores)].score
                 IN  r.trend_num * previous = (r.score - previous) * 100 * r.trend_den]_vars

\* C20: with a previous score of 0.70 a new score of 0.735, a change of
\* exactly 5 per cent, is 'stable' and a new score of 0.80 is 'improving';
\* otherwise the direction is 'stable' below 5 per cent in absolute value,
\* 'improving' above it for a rise and 'declining' for a fall
C20_TrendClassification ==
    (call.fn = "trend" /\ call.returned /\ call.found /\ call.previous > 0) =>
        LET old == call.previous
            new == call.overall_score
            change100 == (new - old) * 100
        IN  /\ (old = 700000 /\ new = 735000) => call.result = "stable"
            /\ (old = 700000 /\ new = 800000) => call.result = "improving"
            /\ Abs(change100) < 5 * old => call.result = "stable"
            /\ (Abs(change100) > 5 * old /\ change100 > 0) => call.result = "improving"
            /\ (Abs(change100) > 5 * old /\ change100 < 0) => call.result = "declining"


\* the trust-score alerts created for the record with this id
TrustAlertsOf(id) ==
    {a \in DOMAIN alerts : alerts[a].alert_type = "trust_score" /\ alerts[a].trust_score_id = id}

\* C21: every TrustScore record has alert_triggered exactly when its score is
\* below its threshold, a score equal to the threshold not triggering; and a
\* trust-score alert is created for a record exactly when the record has
\* alert_triggered: never for another record, never twice, and always once
\* the queued task has run
C21_AlertTriggeredIffBelowThreshold ==
    /\ [](\A id \in DOMAIN trust_scores :
            /\ trust_scores[id].alert_triggered <=>
                    trust_scores[id].score < trust_scores[id].threshold
            /\ TrustAlertsOf(id) # {} => trust_scores[id].alert_triggered
            /\ Cardinality(TrustAlertsOf(id)) <= 1)
    /\ \A id \in 1..MaxTrustScores :
            (id \in DOMAIN trust_scores /\ trust_scores[id].alert_triggered)
                ~> (TrustAlertsOf(id) # {})

\* a record below its threshold has its alert, and a record at its threshold
\* has none and no task left
C21_Witness ==
    /\ Len(trust_scores) = 2
    /\ trust_scores[1].score < trust_scores[1].threshold
    /\ TrustAlertsOf(1) # {}
    /\ trust_scores[2].score = trust_scores[2].threshold
    /\ TrustAlertsOf(2) = {}
    /\ queue = SetToBag({NotifyTask(1)})


EvaluatorTasks == {"run_fairness_evaluation", "run_drift_evaluation"}

\* the messages of evaluator runs that this step took from the broker
RunTaken ==
    {t \in BagToSet(queue) : t.kind \in EvaluatorTasks /\ CopiesIn(t, queue') < CopiesIn(t, queue)}

\* the message as the broker holds it for its next retry
Retried(t) == [t EXCEPT !.retries = t.retries + 1, !.countdown = 60, !.eta = now + 1]

\* C23: when the metric computation of an evaluator run raises, the
\* Evaluation record that run created ends failed with an error message, the
\* run queues no trust-score calculation, and its message is queued again
\* with a 60-second delay unless it has been retried 3 times already; no
\* message is retried more than 3 times and a failed Evaluation stays failed
C23_EvaluatorFailureRecordedAndRetried ==
    [][/\ (evaluations' # evaluations /\ call'.raised) =>
            /\ \E kind \in Kinds :
                    /\ Len(evaluations'[kind]) = Len(evaluations[kind]) + 1
                    /\ evaluations'[kind][Len(evaluations'[kind])] =
                            [status |-> "failed", score |-> 0, error_message |-> TRUE]
            /\ CopiesIn(CalcTask, queue') = CopiesIn(CalcTask, queue)
            /\ \E t \in RunTaken :
                    /\ t.kind = call'.fn
                    /\ queue' = IF t.retries < 3
                                THEN (queue (-) SetToBag({t})) (+) SetToBag({Retried(t)})
                                ELSE queue (-) SetToBag({t})
       /\ \A t \in BagToSet(queue') : t.retries <= 3
       /\ \A kind \in Kinds : \A k \in DOMAIN evaluations[kind] :
            evaluations[kind][k].status = "failed" =>
                /\ k \in DOMAIN evaluations'[kind]
                /\ evaluations'[kind][k].status = "failed"]_vars

\* a fairness run has raised on its first attempt and on each of its three
\* retries, a minute apart: four failed records, and no message left
C23_Witness ==
    /\ now = 3
    /\ Len(evaluations["fairness"]) = 4
    /\ \A k \in 1..4 : evaluations["fairness"][k].status = "failed"
    /\ call.fn = "run_fairness_evaluation"
    /\ call.raised
    /\ queue = EmptyBag

\* C24: an evaluator run that finds fewer than 100 records, for drift in
\* either window, returns without error: it creates no Evaluation record and
\* queues neither a retry nor a trust-score calculation; a run that finds
\* exactly 100 goes on and creates its record
C24_SmallSampleSkipsQuietly ==
    [][RunTaken # {} =>
        LET small == IF call'.fn = "run_drift_evaluation"
                     THEN call'.ref_sample_size < 100 \/ call'.sample_size < 100
                     ELSE call'.sample_size < 100
        IN  /\ small =>
                /\ evaluations' = evaluations
                /\ \E t \in RunTaken : queue' = queue (-) SetToBag({t})
            /\ (~small /\ call'.has_attributes) =>
                \E kind \in Kinds : Len(evaluations'[kind]) = Len(evaluations[kind]) + 1]_vars

\* a drift run with 100 reference records and 99 current ones has returned,
\* after a fairness run with exactly 100 records that created its record
C24_Witness ==
    /\ call.fn = "run_drift_evaluation"
    /\ call.ref_sample_size = 100
    /\ call.sample_size = 99
    /\ evaluations["drift"] = <<>>
    /\ Len(evaluations["fairness"]) = 1
    /\ evaluations["fairness"][1].status = "completed"
    /\ queue = SetToBag({CalcTask})


\* the attributes of the list that have at least two observed values
RECURSIVE ScoredAttributes(_, _)
ScoredAttributes(predictions, attrs) ==
    IF attrs = <<>> THEN <<>>
    ELSE IF Cardinality({predictions[i].features[Head(attrs)] :
                            i \in DOMAIN predictions} \ {None}) >= 2
    THEN <<Head(attrs)>> \o ScoredAttributes(predictions, Tail(attrs))
    ELSE ScoredAttributes(predictions, Tail(attrs))

\* C25: the overall score of calculate_fairness_metrics is in [0,1]; a
\* protected attribute with fewer than two observed values adds no gap, so
\* the score is the one computed over the other attributes alone; and the
\* score is 0.5 when no attribute yields a gap
C25_FairnessScoreInUnitInterval ==
    (call.fn = "calculate_fairness_metrics" /\ call.returned) =>
        LET scored == ScoredAttributes(call.predictions, call.protected_attributes)
        IN  /\ 0 <= call.result.num
            /\ call.result.num <= call.result.den
            /\ call.result = calculate_fairness_metrics(call.predictions, scored)
            /\ scored = <<>> => call.result = [num |-> 1, den |-> 2]

\* attribute a has a single observed value and attribute b two groups with
\* different rates: the score is that of b's gaps alone, not 0.5 and not 1
C25_Witness ==
    /\ call.fn = "calculate_fairness_metrics"
    /\ call.returned
    /\ call.protected_attributes = <<"a", "b">>
    /\ Len(call.predictions) = 3
    /\ \A i \in 1..3 : call.predictions[i].features.a = "g1"
    /\ ScoredAttributes(call.predictions, call.protected_attributes) = <<"b">>
    /\ call.result.num > 0
    /\ call.result.num < call.result.den
    /\ call.result # [num |-> 1, den |-> 2]


\* C26: calculate_psi(ref, ref) is 0 for every numeric feature whose values
\* are not all the same: with the same values in both windows every bin has
\* the same percentage in both and every term of the sum is 0
C26_PsiOfSameWindowIsZero ==
    (/\ call.fn = "calculate_psi"
     /\ call.returned
     /\ call.curr_values = call.ref_values
     /\ Cardinality({call.ref_values[i] : i \in DOMAIN call.ref_values}) >= 2)
        => call.result = 0

\* the index of the values 1, 2, 4 against themselves has been computed as
\* 0, over bins some of which are empty
C26_Witness ==
    /\ call.fn = "calculate_psi"
    /\ call.returned
    /\ call.ref_values = <<4, 1, 2>>
    /\ call.curr_values = call.ref_values
    /\ Cardinality(BinEdges(call.ref_values)) = 11
    /\ \E e \in BinEdges(call.ref_values) \ {40} :
            Histogram(call.ref_values, BinEdges(call.ref_values), e) = 0
    /\ call.result = 0


\* C27: a rule-engine pass queues process_alert_notifications exactly once
\* for each alert it created and for no other alert, also when a later step
\* of the pass raised: by the time the pass has ended, however it ended,
\* every alert it created has been handed over
C27_CreatedAlertsHandedOverOnce ==
    [][\A p \in Procs :
        (procs[p].pc # "idle" /\ procs'[p].pc = "idle") =>
            \A id \in DOMAIN alerts' :
                CopiesIn(NotifyTask(id), queue') - CopiesIn(NotifyTask(id), queue)
                    = IF \E k \in DOMAIN procs[p].alerts_triggered :
                            procs[p].alerts_triggered[k] = id
                      THEN 1 ELSE 0]_vars


\* C28: escalation happens at most once per alert: whatever sweeps, rule
\* passes and user actions have run, its title has at most one '[ESCALATED] '
\* prefix and its description at most one escalation note, and a sweep queues
\* its notification processing again only in the step that adds the prefix
C28_EscalatedAtMostOnce ==
    [][/\ \A id \in DOMAIN alerts' :
            alerts'[id].title_prefixes <= 1 /\ alerts'[id].description_notes <= 1
       /\ sweep_runs' # sweep_runs =>
            \A id \in DOMAIN alerts :
                CopiesIn(NotifyTask(id), queue') - CopiesIn(NotifyTask(id), queue)
                    = alerts'[id].title_prefixes - alerts[id].title_prefixes]_vars

\* an alert created by the rule engine has been escalated, with one prefix,
\* one note and one more notification task than its creation queued, and
\* the sweeper has run at least twice
C28_Witness ==
    \E id \in DOMAIN alerts :
        /\ alerts[id].source = "alert_rule"
        /\ alerts[id].severity = "critical"
        /\ alerts[id].title_prefixes = 1
        /\ alerts[id].description_notes = 1
        /\ CopiesIn(NotifyTask(id), queue) = 2
        /\ sweep_runs = 0


\* the suppressed alerts of the rule's tuple that are neither acknowledged
\* nor resolved
SuppressedOfRule ==
    {id \in DOMAIN alerts :
        /\ alerts[id].is_suppressed
        /\ alerts[id].status = "active"
        /\ AlertTuple(alerts[id]) = RuleTuple}

\* C29: while a suppressed alert of the rule's tuple exists that is neither
\* acknowledged nor resolved, a pass whose condition is true treats it as the
\* existing alert: the save of that condition writes the condition's
\* metric_value and threshold on it, creates no alert and queues nothing;
\* and a sweep leaves it as it is and queues nothing for it
C29_SuppressedAlertIsTheExistingOne ==
    [][/\ \A p \in Procs :
            (procs[p].pc = "save" /\ procs'[p] # procs[p] /\ SuppressedOfRule # {}) =>
                LET c == procs[p].rule.rules[procs[p].i]
                IN  /\ DOMAIN alerts' = DOMAIN alerts
                    /\ queue' = queue
                    /\ \A id \in SuppressedOfRule :
                            /\ alerts'[id].metric_value = MetricGet(procs[p].metrics, c.metric_name)
                            /\ alerts'[id].threshold = c.threshold
       /\ sweep_runs' # sweep_runs =>
            \A id \in SuppressedOfRule :
                /\ alerts'[id] = alerts[id]
                /\ CopiesIn(NotifyTask(id), queue') = CopiesIn(NotifyTask(id), queue)]_vars


\* the positions of the conditions of a pass that are true for its metrics
TrueConditions(pr) ==
    {k \in DOMAIN pr.rule.rules :
        LET c == pr.rule.rules[k]
            metric_value == MetricGet(pr.metrics, c.metric_name)
        IN  /\ metric_value # NoValue
            /\ evaluate_condition(metric_value, c.operator, c.threshold)}

\* C30: a pass that found no active alert of the tuple and has several true
\* conditions ends with exactly one created alert, which has the severity and
\* description of the first true condition and the metric_value and threshold
\* of the last true one; and no save of a pass changes the severity of an
\* alert that exists
C30_OneAlertFirstSeverityLastValues ==
    [][\A p \in Procs :
        /\ (/\ procs[p].pc = "finish"
            /\ procs'[p].pc # "finish"
            /\ procs[p].lookup_missed
            /\ Cardinality(TrueConditions(procs[p])) >= 2) =>
                LET pr == procs[p]
                    first == pr.rule.rules[SetMin(TrueConditions(pr))]
                    last == pr.rule.rules[SetMax(TrueConditions(pr))]
                IN  /\ Len(pr.alerts_triggered) = 1
                    /\ LET a == alerts[pr.alerts_triggered[1]]
                       IN  /\ a.severity = first.severity
                           /\ a.description =
                                RuleDescription(first.metric_name,
                                                MetricGet(pr.metrics, first.metric_name),
                                                first.operator, first.threshold)
                           /\ a.metric_value = MetricGet(pr.metrics, last.metric_name)
                           /\ a.threshold = last.threshold
        /\ (procs[p].pc = "save" /\ procs'[p] # procs[p]) =>
                \A id \in DOMAIN alerts : alerts'[id].severity = alerts[id].severity]_vars

====
